---- MODULE Spec2Model ----
(***************************************************************************)
(* A model of the two-pass orchestration of FunASREngine                   *)
(* (src/src/funasr_engine.cpp, src/src/funasr_engine.h).                   *)
(*                                                                         *)
(* Threads of the model:                                                   *)
(*   <<"caller", o>>  the thread that owns the sessions of owner o: the    *)
(*                    per-file loop of TestTwoPassPerformance, which       *)
(*                    constructs a local TwoPassSession, feeds it the      *)
(*                    chunks of the file through TwoPassRecognize and lets *)
(*                    it go out of scope;                                  *)
(*   <<"vad", o>>     the std::async task running DetectVoiceActivity;     *)
(*   <<"str", o>>     the std::async task running StreamingRecognize;      *)
(*   <<"task", i>>    the i-th detached refinement thread;                 *)
(*   <<"main", 0>>    the monitoring loop calling GetPerformanceMetrics.   *)
(*                                                                         *)
(* The inference backend (the Python generate calls) is external: each     *)
(* call is a nondeterministic choice of its outcome.                       *)
(***************************************************************************)
EXTENDS Integers, Sequences, FiniteSets, TLC

\* ------------------------------------------------------------------ bounds

\* The caller threads (each owns one session at a time).
Owners == {1, 2}
\* Files (hence sessions) the callers process in a run, each caller its own
\* one after the other.
MaxFiles == 2
\* Chunks SimulateStreamingChunks yields per file, at most (and at least 1:
\* a valid file has samples).
ChunksPerFile == 2
\* TwoPassRecognize calls in a run, all callers together.
MaxCalls == 2
\* Endpoints the VAD backend reports in a run (hence refinement threads).
MaxTasks == 2

\* --------------------------------------------------------------- constants

\* "not observed in this call" (VADResult::speech_start_ms / speech_end_ms)
NoMs == -1
\* TwoPassSession defaults
EncoderLookBack == 4
DecoderLookBack == 1
ChunkInterval == 10

\* ------------------------------------------------------------ TwoPassSession

\* A cache (std::map<std::string, py::object>) is modelled by a token:
\* 0 is the empty map, n > 0 the state the backend left after n calls.
EmptyCache == 0

NewSession ==
  [ streaming_cache |-> EmptyCache,
    vad_cache       |-> EmptyCache,
    punc_cache      |-> EmptyCache,
    audio_buffer    |-> << >>,
    current_segment |-> << >>,
    is_speaking     |-> FALSE,
    is_final        |-> FALSE,
    vad_pre_idx     |-> 0,
    chunk_size      |-> <<0, 10, 5>>,
    encoder_chunk_look_back |-> EncoderLookBack,
    decoder_chunk_look_back |-> DecoderLookBack,
    chunk_interval  |-> ChunkInterval ]

\* (mutation of Reset: chunk_interval is cleared with the flags)
Reset_ClearsInterval(s) ==
  [ s EXCEPT !.streaming_cache = EmptyCache,
             !.vad_cache       = EmptyCache,
             !.punc_cache      = EmptyCache,
             !.audio_buffer    = << >>,
             !.current_segment = << >>,
             !.is_speaking     = FALSE,
             !.is_final        = FALSE,
             !.vad_pre_idx     = 0,
             !.chunk_interval  = 0 ]

\* TwoPassSession::Reset
Reset(s) ==
  [ s EXCEPT !.streaming_cache = EmptyCache,
             !.vad_cache       = EmptyCache,
             !.punc_cache      = EmptyCache,
             !.audio_buffer    = << >>,
             !.current_segment = << >>,
             !.is_speaking     = FALSE,
             !.is_final        = FALSE,
             !.vad_pre_idx     = 0 ]

\* ------------------------------------------------------------------ results

\* RecognitionResult (inference_time_ms is left out: wall-clock)
EmptyResult ==
  [ text |-> "", is_final |-> FALSE,
    is_online_result |-> FALSE, is_offline_result |-> FALSE ]

\* (mutation of TagOffline: the online tag is set as well)
TagOffline_AlsoOnline(r) ==
  [r EXCEPT !.is_final = TRUE, !.is_offline_result = TRUE,
            !.is_online_result = TRUE]

\* result.is_final = true; result.is_offline_result = true;
TagOffline(r) == [r EXCEPT !.is_final = TRUE, !.is_offline_result = TRUE]

\* (mutation of IsEmpty: no result counts as empty)
IsEmpty_Never(r) == FALSE

\* RecognitionResult::IsEmpty
IsEmpty(r) == r.text = ""

\* VADResult (inference_time_ms is left out: wall-clock)
EmptyVAD ==
  [ segments |-> << >>, speech_start_ms |-> NoMs, speech_end_ms |-> NoMs,
    has_speech |-> FALSE ]

\* The loop of ParseVADResult over the segments of first_result["value"].
RECURSIVE ParseSegments(_, _)
ParseSegments(segs, acc) ==
  IF segs = << >> THEN acc
  ELSE LET seg == Head(segs)
           a1  == [ acc EXCEPT !.segments = Append(@, seg) ]
           a2  == IF seg[1] # NoMs /\ a1.speech_start_ms = NoMs
                  THEN [ a1 EXCEPT !.speech_start_ms = seg[1] ] ELSE a1
           a3  == IF seg[2] # NoMs
                  THEN [ a2 EXCEPT !.speech_end_ms = seg[2] ] ELSE a2
       IN  ParseSegments(Tail(segs), a3)

\* (mutation of ParseVADResult: the first segment alone is looked at)
ParseVADResult_FirstOnly(segs) ==
  LET p == ParseSegments(IF segs = << >> THEN segs ELSE << Head(segs) >>, EmptyVAD)
  IN  [ p EXCEPT !.segments = segs, !.has_speech = (segs # << >>) ]

ParseVADResult(segs) ==
  LET p == ParseSegments(segs, EmptyVAD)
  IN  [ p EXCEPT !.has_speech = (p.segments # << >>) ]

\* The segment lists handed to ParseVADResult on its own: up to MaxSegs
\* pairs of offsets up to MaxMs, or -1 for an open boundary.
MaxSegs == 2
MaxMs == 2
SegLists ==
  UNION { [1..n -> (0..MaxMs \cup {NoMs}) \X (0..MaxMs \cup {NoMs})] :
            n \in 0..MaxSegs }

\* No ParseVADResult call is looked at.
NoParse == [ st |-> "none", segs |-> << >>, out |-> EmptyVAD ]

\* ------------------------------------------------------------------ backend

\* What an ASR generate call can answer: it throws ("fail"), or it returns
\* an empty or a non-empty text.
AsrOutcomes == {"fail", "", "t"}

\* What punc_model_.generate can answer: it throws, it returns something
\* without a text, or it returns the punctuated text.
PuncOutcomes == {"fail", "notext", "ok"}

\* The cache round trip of a generate call: the backend updates, in place,
\* the cache dict it is handed; a call handed no cache starts from the
\* empty state and its state is visible to nobody.
NoCachePassed == -1
BackendCache(passed) == (IF passed = NoCachePassed THEN EmptyCache ELSE passed) + 1

\* ------------------------------------------------------------------ threads

Free == <<"free", 0>>
Caller(o) == <<"caller", o>>
StrThread(o) == <<"str", o>>
TaskThread(i) == <<"task", i>>
MainThread == <<"main", 0>>

Files == 1..MaxFiles

VARIABLES
  pc,            \* pc[o]: position of caller o
  gen,           \* gen[o]: files caller o has started (the session's number)
  alive,         \* alive[o]: the local session of caller o exists
  chunkIdx,      \* chunkIdx[o]: chunks of the current file submitted
  session,       \* session[o]: the storage of caller o's local TwoPassSession
  results,       \* results[o]: the caller's result list of the current file
  vad,           \* vad[o]: the VAD sub-task of the call in progress
  str,           \* str[o]: the streaming sub-task of the call in progress
  joined,        \* joined[o]: the futures the call in progress has got, in order
  tasks,         \* the detached refinement threads, in launch order
  metrics_mutex_,\* holder of metrics_mutex_, or Free
  maccess,       \* accesses to current_metrics_ in progress: [t, mode]
  crashed,       \* the process was killed by an access to freed storage
  touched,       \* touched[o][k]: session fields sub-task k accessed, with mode
  vadEnds,       \* vadEnds[o][g]: endpoints VAD reported for session g of o
  resetsApplied, \* resetsApplied[o][g]: Resets applied to session g of o
  bk,            \* bk[o]: the cache each backend produced in its latest call
  nCalls,        \* TwoPassRecognize calls made so far
  sinceReset,    \* sinceReset[o]: chunks passed on o's session since its last Reset
  current_metrics_, \* the values of the shared PerformanceMetrics aggregate
  config_,       \* the engine configuration
  op,            \* op[w]: the engine call worker thread w is in
  nOps,          \* engine calls the worker threads may still make
  parse,         \* a ParseVADResult call: the backend's answer and the result
  bench,         \* the thread in TestConcurrentPerformance
  bw,            \* bw[i]: the std::async worker i of TestConcurrentPerformance
  td,            \* the engine object, its test thread and the process at teardown
  rt,            \* rt[i]: detached refinement thread i at teardown
  mp,            \* the main thread from the command line to the exit code
  suite,         \* RunPerformanceTests, its test thread and MonitorProgress
  fn             \* a ResampleAudio or SimulateStreamingChunks call

\* The variables of the worker threads calling the engine directly.
evars == << current_metrics_, config_, op, nOps >>

\* The variables of the two-pass callers and their threads.
tvars == << pc, gen, alive, chunkIdx, session, results, vad, str, joined, tasks,
            maccess, crashed, touched, vadEnds, resetsApplied, bk, nCalls,
            sinceReset >>

\* The variables of the calls looked at on their own.
hvars == << parse, bench, bw, td, rt, mp, suite, fn >>

vars == << tvars, metrics_mutex_, evars, hvars >>

IdleVad == [ st |-> "idle", passed |-> NoCachePassed, res |-> EmptyVAD, failed |-> FALSE ]
IdleStr == [ st |-> "idle", passed |-> NoCachePassed, res |-> EmptyResult, failed |-> FALSE ]
NoTouch == [ vad |-> {}, str |-> {} ]
NoBk    == [ vad |-> EmptyCache, str |-> EmptyCache ]

\* ------------------------------------------------- the metrics aggregate

\* The threads that call the engine directly (the std::async workers of
\* TestConcurrentPerformance, the test thread).
Workers == {1, 2}
\* Engine calls the worker threads make in a run, all together.
MaxOps == 2

Worker(w) == <<"worker", w>>

\* PerformanceMetrics as default-constructed. A measured time or ratio is
\* 0 (not measured) or a positive number; total_audio_processed_hours is
\* counted in samples of 16 kHz audio.
NewMetrics ==
  [ streaming_rtf |-> 0, offline_rtf |-> 0, two_pass_rtf |-> 0,
    end_to_end_latency_ms |-> 0, gpu_memory_gb |-> 0,
    online_latency_ms |-> 0, offline_refinement_ms |-> 0,
    vad_processing_ms |-> 0, punctuation_ms |-> 0,
    concurrent_sessions |-> 0, total_audio_processed_hours |-> 0,
    total_requests |-> 0, success_requests |-> 0, test_files_count |-> 0 ]

MetricFields == DOMAIN NewMetrics

\* current_metrics_ when Initialize has returned true: the memory reading
\* (0 when /proc/meminfo could not be read) and the number of test files.
InitializedMetrics ==
  { [NewMetrics EXCEPT !.gpu_memory_gb = g, !.test_files_count = c] :
      g \in {0, 1}, c \in {1} }

\* The fields the benchmark functions set in the PerformanceMetrics they
\* return (each returns the default object when no file succeeded).
Partials ==
  { [f \in MetricFields |-> IF f \in S THEN v ELSE 0] :
      S \in { {},
               {"offline_rtf", "total_audio_processed_hours", "test_files_count"},
               {"streaming_rtf", "online_latency_ms", "end_to_end_latency_ms"},
               {"two_pass_rtf"},
               {"streaming_rtf", "concurrent_sessions"} },
      v \in 1..2 }

\* (mutation of MergeMetrics: the hours are overwritten like the others)
MergeMetrics_HoursOverwritten(m, p) ==
  [ m EXCEPT
      !.total_audio_processed_hours =
         IF p.total_audio_processed_hours > 0
         THEN p.total_audio_processed_hours ELSE @ ]

\* The body of UpdateMetrics, field by field.
MergeMetrics(m, p) ==
  [ m EXCEPT
      !.streaming_rtf = IF p.streaming_rtf > 0 THEN p.streaming_rtf ELSE @,
      !.offline_rtf = IF p.offline_rtf > 0 THEN p.offline_rtf ELSE @,
      !.two_pass_rtf = IF p.two_pass_rtf > 0 THEN p.two_pass_rtf ELSE @,
      !.end_to_end_latency_ms =
         IF p.end_to_end_latency_ms > 0 THEN p.end_to_end_latency_ms ELSE @,
      !.online_latency_ms =
         IF p.online_latency_ms > 0 THEN p.online_latency_ms ELSE @,
      !.concurrent_sessions =
         IF p.concurrent_sessions > 0 THEN p.concurrent_sessions ELSE @,
      !.total_audio_processed_hours =
         IF p.total_audio_processed_hours > 0
         THEN @ + p.total_audio_processed_hours ELSE @,
      !.test_files_count =
         IF p.test_files_count > 0 THEN p.test_files_count ELSE @,
      !.gpu_memory_gb = p.gpu_memory_gb ]

\* ---------------------------------------------- OfflineRecognize, the text

\* The rate OfflineRecognize takes its input to have, and the working rate.
AssumedInputRate == 24000
WorkingRate == 16000

\* ResampleAudio: the size of the resampled vector, size * (to / from)
\* truncated (the quotient and the remainder of size are scaled apart to
\* keep the products small; the sum is the same truncated quotient).
ResampledSize(n, from_rate, to_rate) ==
  IF from_rate = to_rate THEN n
  ELSE (n \div from_rate) * to_rate + ((n % from_rate) * to_rate) \div from_rate

\* The audio OfflineRecognize works on (its size in samples).
WorkingSize(n, resampling) ==
  IF resampling /\ n > 0 THEN ResampledSize(n, AssumedInputRate, WorkingRate)
  ELSE n

\* The value of enable_vad when the VAD block is reached: the assignment
\* "enable_vad = false;" precedes its test.
EnableVadAtTest(enable_vad) == FALSE

\* int start_sample = (segment.first * 16000) / 1000;
\* (computed in 64 bits and narrowed to int: the narrowing changes nothing
\* for offsets below 134217 ms, which is all the model hands in)
SampleOf(ms) == (ms * WorkingRate) \div 1000

\* The test a segment has to pass to be sliced and recognized.
SegmentUsable(seg, size) ==
  /\ SampleOf(seg[1]) >= 0
  /\ SampleOf(seg[2]) <= size
  /\ SampleOf(seg[2]) > SampleOf(seg[1])

\* What vad_model_.generate can answer for a whole recording: no segment
\* (also what DetectVoiceActivity returns when the call throws), two good
\* segments, or a second segment that is inverted, negative or past the end.
OffVadAnswers ==
  { << >>,
    << <<0, 1000>>, <<1500, 2000>> >>,
    << <<0, 1000>>, <<2000, 1500>> >>,
    << <<0, 1000>>, <<0 - 500, 2000>> >>,
    << <<0, 1000>>, <<1500, 9000>> >> }

\* The text the backend gives for the k-th segment when it gives one.
SegWords == <<"a", "b">>

\* The loop over vad_result.segments: each usable segment is sliced and
\* recognized, non-empty texts are collected; a throwing generate call
\* leaves the loop (to the catch of the VAD block).
RECURSIVE SliceLoop(_, _, _, _, _)
SliceLoop(segs, k, size, segAsr, acc) ==
  IF k > Len(segs) \/ acc.threw THEN acc
  ELSE IF SegmentUsable(segs[k], size)
       THEN LET rng == << SampleOf(segs[k][1]), SampleOf(segs[k][2]) >>
                a1  == [acc EXCEPT !.recognized = Append(@, rng)]
            IN  IF segAsr[k] = "fail" THEN [a1 EXCEPT !.threw = TRUE]
                ELSE SliceLoop(segs, k + 1, size, segAsr,
                       IF segAsr[k] = "" THEN a1
                       ELSE [a1 EXCEPT !.texts = Append(@, SegWords[k])])
       ELSE SliceLoop(segs, k + 1, size, segAsr, acc)

\* for (text : segment_texts) { if (!final_text.empty()) final_text += " ";
\*                              final_text += text; }
JoinWithSpaces(texts) ==
  CASE texts = << >> -> ""
    [] Len(texts) = 1 -> texts[1]
    [] texts = <<"a", "b">> -> "a b"

\* The text punc_model_.generate answers for a text.
Punctuated(text) ==
  CASE text = "t" -> "t."
    [] text = "a" -> "a."
    [] text = "b" -> "b."
    [] text = "a b" -> "a b."

\* What the backends answer during one OfflineRecognize call; pre is
\* "throw" when the preprocessing before the inner try blocks throws.
OfflineAnswers ==
  [ vad : OffVadAnswers,
      seg : { <<"t", "t">>, <<"t", "">>, <<"fail", "t">> }, asr : AsrOutcomes,
    punc : PuncOutcomes, pre : {"ok", "throw"} ]

\* (mutation of PuncInvoked: the flag of the caller is not looked at)
PuncInvoked_IgnoresFlag(enable_punctuation, text) == text # ""

\* if (enable_punctuation && !final_text.empty()): AddPunctuation is called.
PuncInvoked(enable_punctuation, text) == enable_punctuation /\ text # ""

\* The answers drawn for a call: the VAD answers for the recording vary
\* where the caller asks for VAD on a recording longer than 5 s; no other
\* call can reach DetectVoiceActivity.
OfflineAnswersFor(args, resampling) ==
  IF args.enable_vad /\ WorkingSize(args.audio, resampling) > WorkingRate * 5
  THEN OfflineAnswers
  ELSE { a \in OfflineAnswers : a.vad = << >> /\ a.seg = <<"t", "t">> }

\* OfflineRecognize from its entry to "result.text = final_text": the VAD
\* runs made, the sample ranges handed to offline_model_.generate, whether
\* the whole-buffer recognition threw ("return result;"), the text, and
\* whether AddPunctuation wrote punctuation_ms.
OfflineText(args, resampling, ans) ==
  LET size    == WorkingSize(args.audio, resampling)
      atTest  == EnableVadAtTest(args.enable_vad)
      useVad  == atTest /\ size > WorkingRate * 5
      vres    == ParseVADResult(ans.vad)
      hasSegs == vres.segments # << >>
      loop    == SliceLoop(vres.segments, 1, size, ans.seg,
                           [texts |-> << >>, recognized |-> << >>, threw |-> FALSE])
      inLoop  == useVad /\ hasSegs
      vadText == IF inLoop /\ ~loop.threw THEN JoinWithSpaces(loop.texts) ELSE ""
      vadOn   == IF useVad THEN hasSegs /\ ~loop.threw ELSE atTest
      whole   == ~vadOn \/ vadText = ""
      sliced  == IF inLoop THEN loop.recognized ELSE << >>
      early   == whole /\ ans.asr = "fail"
      text1   == IF ~whole THEN vadText ELSE IF early THEN "" ELSE ans.asr
      punc    == ~early /\ PuncInvoked(args.enable_punctuation, text1)
      puncOk  == punc /\ ans.punc = "ok"
  IN  [ vadRuns |-> IF useVad THEN 1 ELSE 0,
        recognized |-> IF whole THEN Append(sliced, <<0, size>>) ELSE sliced,
        early |-> early,
        text |-> IF puncOk THEN Punctuated(text1) ELSE text1,
        puncWritten |-> puncOk,
        raw |-> text1,
        puncRuns |-> IF punc THEN 1 ELSE 0,
        puncFailed |-> punc /\ ~puncOk ]

\* A worker thread between two engine calls; session is the local
\* TwoPassSession it passes to StreamingRecognize.
IdleOp ==
  [ kind |-> "idle", pc |-> "idle", args |-> [audio |-> 0],
    answers |-> << >>, passed |-> NoCachePassed, rd |-> 0,
    res |-> EmptyResult, failed |-> FALSE,
    incTotal |-> 0, incSuccess |-> 0, vadRuns |-> 0, recognized |-> << >>,
    raw |-> "", puncRuns |-> 0, puncFailed |-> FALSE,
    partial |-> NewMetrics, session |-> NewSession ]

\* The worker threads make no engine call (the runs of the two-pass callers).
EngineIdle ==
  /\ current_metrics_ = NewMetrics
  /\ config_ = [enable_audio_resampling |-> TRUE]
  /\ op = [w \in Workers |-> IdleOp]
  /\ nOps = 0

\* The two-pass callers have not started.
TwoPassInit ==
  /\ pc = [o \in Owners |-> "loop"]
  /\ gen = [o \in Owners |-> 0]
  /\ alive = [o \in Owners |-> FALSE]
  /\ chunkIdx = [o \in Owners |-> 0]
  /\ session = [o \in Owners |-> NewSession]
  /\ results = [o \in Owners |-> << >>]
  /\ vad = [o \in Owners |-> IdleVad]
  /\ str = [o \in Owners |-> IdleStr]
  /\ joined = [o \in Owners |-> << >>]
  /\ tasks = << >>
  /\ metrics_mutex_ = Free
  /\ maccess = {}
  /\ crashed = FALSE
  /\ touched = [o \in Owners |-> NoTouch]
  /\ vadEnds = [o \in Owners |-> [g \in Files |-> 0]]
  /\ resetsApplied = [o \in Owners |-> [g \in Files |-> 0]]
  /\ bk = [o \in Owners |-> NoBk]
  /\ nCalls = 0
  /\ sinceReset = [o \in Owners |-> << >>]

\* ------------------------------------------- TestConcurrentPerformance, data

\* The sizes of test_audio_files_ and the values of max_concurrent_sessions
\* looked at.
MaxBenchFiles == 3
MaxWorkers == 3

\* files_per_worker = std::max(1, size / num_workers)
FilesPerWorker(n, num_workers) ==
  IF n \div num_workers > 1 THEN n \div num_workers ELSE 1

\* start_idx and end_idx of worker i.
StartIdx(i, n, num_workers) == i * FilesPerWorker(n, num_workers)
EndIdx(i, n, num_workers) ==
  IF StartIdx(i, n, num_workers) + FilesPerWorker(n, num_workers) < n
  THEN StartIdx(i, n, num_workers) + FilesPerWorker(n, num_workers) ELSE n

\* What constructing worker_files from begin() + start_idx and
\* begin() + end_idx does: a copy of the range; with start_idx past the end
\* of the list the iterators are invalid and the behaviour is undefined (the
\* library throws std::length_error for the negative distance, or the
\* process dies in the copy).
RangeOutcomes(start_idx, end_idx, n) ==
  IF start_idx <= n /\ start_idx <= end_idx THEN {"copied"}
  ELSE {"throws", "crash"}

\* (mutation of AfterWorkerThrow: the worker never counts as finished)
AfterWorkerThrow_NeverDone == "stuck"

\* The worker after its catch block: the function returns, the future is
\* ready.
AfterWorkerThrow == "done"

\* (mutation of ValidResults: every worker is counted)
ValidResults_All(worker_results, num_workers) == 0..(num_workers - 1)

\* The entries of worker_results the aggregation loop takes.
ValidResults(worker_results, num_workers) ==
  { i \in 0..(num_workers - 1) : worker_results[i] > 0 }

RECURSIVE SumOver(_, _)
SumOver(f, S) ==
  IF S = {} THEN 0
  ELSE LET x == CHOOSE y \in S : TRUE IN f[x] + SumOver(f, S \ {x})

NoWorker ==
  [ st |-> "none", start_idx |-> 0, end_idx |-> 0, pos |-> 0,
    pushed |-> 0, threw |-> FALSE ]

\* TestConcurrentPerformance is not called.
NoBench ==
  [ pc |-> "none", files |-> 0, num_workers |-> 0, i |-> 0, k |-> 0,
    worker_results |-> [i \in 0..(MaxWorkers - 1) |-> 0],
    total_rtf |-> 0, valid_results |-> 0, concurrent_sessions |-> 0 ]

\* ------------------------------------------------------ teardown, data

\* Refinement threads launched before the engine is torn down.
MaxRefine == 2

\* A refinement thread: where it is, whether it ran engine code after
\* ~FunASREngine had returned, whether the process ended under it while it
\* was inside offline_model_.generate.
NoRefine == [ pc |-> "none", afterDtor |-> FALSE, cut |-> FALSE ]

\* The engine exists, its test thread runs, nothing is torn down.
NoTeardown == [ engine |-> "alive", test_thread_ |-> "running", process |-> "running" ]

\* ---------------------------------------------------------- main, data

\* Arguments on a command line.
MaxArgs == 2

\* The arguments by what ParseCommandLine does with them: it shows
\* something and returns false, ...
InfoArgs == {"--help", "--version", "--system-info"}
\* ... it takes them and goes on, ...
GoodArgs == {"--cpu-threads 8", "--concurrent 4", "--audio-dir here",
             "--log-level WARN", "--quiet"}
\* ... it reports them and returns false, ...
BadArgs == {"--cpu-threads 0", "--concurrent 1001", "--audio-dir nowhere",
            "--log-level LOUD", "--frobnicate"}
\* ... or std::stoi throws std::invalid_argument on their value.
ThrowingArgs == {"--cpu-threads x"}

CommandLines ==
  UNION { [1..n -> InfoArgs \cup GoodArgs \cup BadArgs \cup ThrowingArgs] :
            n \in 0..MaxArgs }

\* "return 0;" of main after ParseCommandLine returned false.
ParseFalseExit == 0

\* (mutation of RefusedExit: main returns what it returns for --help)
RefusedExit_Zero == ParseFalseExit

\* "return -1;" of main (ValidateConfig, Initialize or RunPerformanceTests
\* returned false, or an exception reached main).
RefusedExit == 0 - 1

\* The steps of Initialize that can fail, in order.
InitSteps ==
  << "python", "streaming_asr", "offline_asr", "vad", "punctuation", "files" >>

\* How a step of Initialize can end: true, false (for the files: no WAV
\* file found, or none of the pre-checked files valid), or an exception.
StepOutcomes(step) ==
  IF step = "files" THEN {"ok", "no_wav", "none_valid", "throw"}
  ELSE {"ok", "false", "throw"}

\* main has not started.
NoMain ==
  [ pc |-> "none", args |-> << >>, i |-> 1, step |-> 1, refused |-> "none",
    initFailed |-> "none", initialized_ |-> FALSE, test_thread_ |-> FALSE,
    exit |-> 99 ]   \* 99: main has not returned

\* -------------------------------------------- RunPerformanceTests, data

\* The files TestOfflinePerformance goes through, the RunPerformanceTests
\* calls made on the engine, and max_progress_cycles of MonitorProgress
\* (60 in the source).
MaxSuiteFiles == 2
MaxRuns == 2
MaxProgressCycles == 2

\* The longest buffer handed to ResampleAudio and SimulateStreamingChunks,
\* and the longest chunk duration, in 1/32 ms.
MaxBufLen == 6
MaxDur32 == 8

\* RunPerformanceTests has not been called.
NoSuite ==
  [ tests |-> {}, files |-> 0, calls |-> 0,
    testing_active_ |-> FALSE, test_thread_ |-> "none",
    tpc |-> "none", i |-> 0, rtf_values |-> 0, total_audio_duration |-> 0,
    ran |-> {}, threw |-> FALSE,
    mon |-> "none", progress_count |-> 0,
    engine |-> "alive", terminated |-> FALSE ]

\* No ResampleAudio or SimulateStreamingChunks call is made.
NoFn == [ f |-> "none" ]

\* None of the calls looked at on their own is made.
HarnessIdle ==
  /\ parse = NoParse
  /\ bench = NoBench /\ bw = [i \in 0..(MaxWorkers - 1) |-> NoWorker]
  /\ td = NoTeardown /\ rt = [i \in 1..MaxRefine |-> NoRefine]
  /\ mp = NoMain
  /\ suite = NoSuite /\ fn = NoFn

Init == TwoPassInit /\ EngineIdle /\ HarnessIdle

\* --------------------------------------------------- current_metrics_ access

BeginAccess(t, m) == maccess' = maccess \cup { [t |-> t, mode |-> m] }
EndAccess(t) == maccess' = { a \in maccess : a.t # t }

TotalEnds ==
  LET RECURSIVE Sum(_)
      Sum(S) == IF S = {} THEN 0
                ELSE LET x == CHOOSE y \in S : TRUE
                     IN  vadEnds[x[1]][x[2]] + Sum(S \ {x})
  IN  Sum(Owners \X Files)

\* ------------------------------------------- the caller: TestTwoPassPerformance

FilesStarted ==
  LET RECURSIVE Sum(_)
      Sum(S) == IF S = {} THEN 0
                ELSE LET x == CHOOSE y \in S : TRUE IN gen[x] + Sum(S \ {x})
  IN  Sum(Owners)

\* for (i < test_count): ReadWavFile valid, SimulateStreamingChunks,
\* TwoPassSession session; std::vector<RecognitionResult> results;
NewFile(o) ==
  /\ ~crashed
  /\ pc[o] = "loop"
  /\ FilesStarted < MaxFiles
  /\ gen' = [gen EXCEPT ![o] = @ + 1]
  /\ alive' = [alive EXCEPT ![o] = TRUE]
  /\ session' = [session EXCEPT ![o] = NewSession]
  /\ results' = [results EXCEPT ![o] = << >>]
  /\ chunkIdx' = [chunkIdx EXCEPT ![o] = 0]
  /\ bk' = [bk EXCEPT ![o] = NoBk]
  /\ sinceReset' = [sinceReset EXCEPT ![o] = << >>]
  /\ pc' = [pc EXCEPT ![o] = "call"]
  /\ UNCHANGED << hvars, evars, vad, str, joined, tasks, metrics_mutex_, maccess, crashed,
                  touched, vadEnds, resetsApplied, nCalls >>

\* if (!audio_data.IsValid()) continue;
SkipFile(o) ==
  /\ ~crashed
  /\ pc[o] = "loop"
  /\ FilesStarted < MaxFiles
  /\ gen' = [gen EXCEPT ![o] = @ + 1]
  /\ UNCHANGED << hvars, evars, sinceReset, pc, alive, chunkIdx, session, results, vad, str, joined, tasks,
                  metrics_mutex_, maccess, crashed, touched, vadEnds,
                  resetsApplied, bk, nCalls >>

\* The end of the loop body: session and results go out of scope.
EndFile(o) ==
  /\ ~crashed
  /\ pc[o] = "call"
  /\ chunkIdx[o] >= 1
  /\ alive' = [alive EXCEPT ![o] = FALSE]
  /\ session' = [session EXCEPT ![o] = NewSession]
  /\ results' = [results EXCEPT ![o] = << >>]
  /\ vad' = [vad EXCEPT ![o] = IdleVad]
  /\ str' = [str EXCEPT ![o] = IdleStr]
  /\ joined' = [joined EXCEPT ![o] = << >>]
  /\ touched' = [touched EXCEPT ![o] = NoTouch]
  /\ sinceReset' = [sinceReset EXCEPT ![o] = << >>]
  /\ pc' = [pc EXCEPT ![o] = "loop"]
  /\ UNCHANGED << hvars, evars, gen, chunkIdx, tasks, metrics_mutex_, maccess, crashed,
                  vadEnds, resetsApplied, bk, nCalls >>

\* ------------------------------------------------------------ TwoPassRecognize

\* Entry: the chunk is appended to session.audio_buffer and the two
\* std::async tasks are created. The append is not synchronised with a
\* Reset in progress on the same storage: the task is marked as raced.
Call(o) ==
  /\ ~crashed
  /\ pc[o] = "call"
  /\ chunkIdx[o] < ChunksPerFile
  /\ nCalls < MaxCalls
  /\ nCalls' = nCalls + 1
  /\ chunkIdx' = [chunkIdx EXCEPT ![o] = @ + 1]
  /\ session' = [session EXCEPT ![o].audio_buffer = Append(@, chunkIdx[o] + 1)]
  /\ sinceReset' = [sinceReset EXCEPT ![o] = Append(@, chunkIdx[o] + 1)]
  /\ tasks' = [i \in DOMAIN tasks |->
                 \* a refinement thread is inside session.Reset() on the
                 \* storage of this session
                 IF tasks[i].owner = o /\ tasks[i].pc = "resetting"
                 THEN [tasks[i] EXCEPT !.raced = Append(@, chunkIdx[o] + 1)]
                 ELSE tasks[i]]
  /\ vad' = [vad EXCEPT ![o] = [IdleVad EXCEPT !.st = "ready"]]
  /\ str' = [str EXCEPT ![o] = [IdleStr EXCEPT !.st = "ready"]]
  /\ joined' = [joined EXCEPT ![o] = << >>]
  /\ touched' = [touched EXCEPT ![o] = NoTouch]
  /\ pc' = [pc EXCEPT ![o] = "forked"]
  /\ UNCHANGED << hvars, evars, gen, alive, results, metrics_mutex_, maccess, crashed,
                  vadEnds, resetsApplied, bk >>

\* (mutation of FutureReady: the result is taken without waiting)
FutureReady_NoWait(f) == f.st # "idle"

\* std::future::get returns once the task has run to its end.
FutureReady(f) == f.st = "done"

\* auto streaming_result = streaming_future.get(); push_back if non-empty
GetStreaming(o) ==
  /\ ~crashed
  /\ pc[o] = "forked"
  /\ FutureReady(str[o])
  /\ joined' = [joined EXCEPT ![o] = Append(@, "streaming")]
  /\ results' = [results EXCEPT ![o] =
                   IF IsEmpty(str[o].res) THEN @
                   ELSE Append(@, [str[o].res EXCEPT !.is_online_result = TRUE])]
  /\ pc' = [pc EXCEPT ![o] = "gotStream"]
  /\ UNCHANGED << hvars, evars, sinceReset, gen, alive, chunkIdx, session, vad, str, tasks, metrics_mutex_,
                  maccess, crashed, touched, vadEnds, resetsApplied, bk, nCalls >>

\* auto vad_result = vad_future.get();
\* current_metrics_.vad_processing_ms = ...   (metrics_mutex_ is not taken)
GetVad(o) ==
  /\ ~crashed
  /\ pc[o] = "gotStream"
  /\ FutureReady(vad[o])
  /\ joined' = [joined EXCEPT ![o] = Append(@, "vad")]
  /\ BeginAccess(Caller(o), "w")
  /\ pc' = [pc EXCEPT ![o] = "vadMetric"]
  /\ UNCHANGED << hvars, evars, sinceReset, gen, alive, chunkIdx, session, results, vad, str, tasks,
                  metrics_mutex_, crashed, touched, vadEnds, resetsApplied, bk, nCalls >>

NewTask(o) ==
  [ owner |-> o, gen |-> gen[o], chunk |-> chunkIdx[o],
    snap |-> session[o].audio_buffer,
    pc |-> "recognizing", res |-> EmptyResult, failed |-> FALSE,
    resetOn |-> "none", raced |-> << >> ]

\* (mutation of SpeakingAfter: the speech start is tested first)
SpeakingAfter_StartFirst(v, was) ==
  IF v.speech_start_ms # NoMs THEN TRUE
  ELSE IF v.speech_end_ms # NoMs THEN FALSE
  ELSE was

\* The value is_speaking has after step 4, from the VAD result of the chunk.
SpeakingAfter(v, was) ==
  IF v.speech_end_ms # NoMs THEN FALSE
  ELSE IF v.speech_start_ms # NoMs THEN TRUE
  ELSE was

\* (mutation of LaunchesRefinement: every chunk launches a refinement)
LaunchesRefinement_Always(v) == TRUE

\* The condition on which step 4 launches the detached refinement thread.
LaunchesRefinement(v) == v.speech_end_ms # NoMs

\* Step 4: the endpoint test; on an endpoint the buffer is copied into
\* complete_segment and the refinement thread is created and detached.
Endpoint(o) ==
  /\ ~crashed
  /\ pc[o] = "vadMetric"
  /\ EndAccess(Caller(o))
  /\ session' = [session EXCEPT ![o].is_speaking = SpeakingAfter(vad[o].res, @)]
  /\ tasks' = IF LaunchesRefinement(vad[o].res) THEN Append(tasks, NewTask(o))
              ELSE tasks
  /\ pc' = [pc EXCEPT ![o] = "metrics"]
  /\ UNCHANGED << hvars, evars, sinceReset, gen, alive, chunkIdx, results, vad, str, joined, metrics_mutex_,
                  crashed, touched, vadEnds, resetsApplied, bk, nCalls >>

\* { std::lock_guard lock(metrics_mutex_); two_pass_rtf, end_to_end_latency_ms
LockMetrics(o) ==
  /\ ~crashed
  /\ pc[o] = "metrics"
  /\ metrics_mutex_ = Free
  /\ metrics_mutex_' = Caller(o)
  /\ BeginAccess(Caller(o), "w")
  /\ pc' = [pc EXCEPT ![o] = "locked"]
  /\ UNCHANGED << hvars, evars, sinceReset, gen, alive, chunkIdx, session, results, vad, str, joined, tasks,
                  crashed, touched, vadEnds, resetsApplied, bk, nCalls >>

\* (mutation of ReturnGuard: the refinement threads of the caller are joined)
ReturnGuard_Join(o) ==
  /\ pc[o] = "locked"
  /\ \A i \in 1..Len(tasks) : tasks[i].owner = o => tasks[i].pc = "done"

\* What TwoPassRecognize waits for before it returns, once it holds the
\* metrics lock: nothing (the refinement thread was detached).
ReturnGuard(o) == pc[o] = "locked"

\* } the lock is released and TwoPassRecognize returns.
Return(o) ==
  /\ ~crashed
  /\ ReturnGuard(o)
  /\ metrics_mutex_' = Free
  /\ EndAccess(Caller(o))
  /\ vad' = [vad EXCEPT ![o].res = EmptyVAD, ![o].passed = NoCachePassed]
  /\ str' = [str EXCEPT ![o].res = EmptyResult, ![o].passed = NoCachePassed]
  /\ pc' = [pc EXCEPT ![o] = "call"]
  /\ UNCHANGED << hvars, evars, sinceReset, gen, alive, chunkIdx, session, results, joined, tasks, crashed,
                  touched, vadEnds, resetsApplied, bk, nCalls >>

\* --------------------------------------------------------- DetectVoiceActivity

\* (mutation of VadCacheField: the VAD task is handed the streaming cache)
VadCacheField_Streaming == "streaming_cache"

\* The cache the VAD task of TwoPassRecognize hands to DetectVoiceActivity:
\* [this, &audio_chunk, &session]() { ... (audio_chunk, session.vad_cache); }
VadCacheField == "vad_cache"

Touch(o, k, accs) == touched' = [touched EXCEPT ![o][k] = @ \cup accs]

\* Up to the generate call: the cache is handed over only when non-empty.
VadStart(o) ==
  /\ ~crashed
  /\ vad[o].st = "ready"
  /\ vad' = [vad EXCEPT ![o].st = "running",
                        ![o].passed = IF session[o][VadCacheField] # EmptyCache
                                      THEN session[o][VadCacheField]
                                      ELSE NoCachePassed]
  /\ Touch(o, "vad", { <<VadCacheField, "r">> })
  /\ UNCHANGED << hvars, evars, sinceReset, pc, gen, alive, chunkIdx, session, results, str, joined, tasks,
                  metrics_mutex_, maccess, crashed, vadEnds, resetsApplied, bk, nCalls >>

\* The generate call throws: caught, the default VADResult is returned.
VadFail(o) ==
  /\ ~crashed
  /\ vad[o].st = "running"
  /\ vad' = [vad EXCEPT ![o].st = "done", ![o].failed = TRUE, ![o].res = EmptyVAD]
  /\ UNCHANGED << hvars, evars, sinceReset, pc, gen, alive, chunkIdx, session, results, str, joined, tasks,
                  metrics_mutex_, maccess, crashed, touched, vadEnds,
                  resetsApplied, bk, nCalls >>

\* The generate call returns: the cache is written back only if one was
\* handed over (kwargs.contains("cache")), and the result is parsed.
VadFinish(o) ==
  /\ ~crashed
  /\ vad[o].st = "running"
  \* the [start_ms, end_ms] pairs vad_model_.generate answers for the chunk
  /\ \E segs \in { << >>, << <<0, NoMs>> >>, << <<NoMs, 1>> >>,
                   << <<0, 1>> >> } :
       LET r == ParseVADResult(segs)
           p == vad[o].passed
       IN  /\ (r.speech_end_ms # NoMs) => (TotalEnds < MaxTasks)
           /\ vad' = [vad EXCEPT ![o].st = "done", ![o].res = r]
           /\ IF p # NoCachePassed
              THEN /\ session' = [session EXCEPT ![o][VadCacheField] = BackendCache(p)]
                   /\ Touch(o, "vad", { <<VadCacheField, "w">> })
              ELSE UNCHANGED << session, touched >>
           /\ bk' = [bk EXCEPT ![o].vad = BackendCache(p)]
           /\ vadEnds' = IF r.speech_end_ms # NoMs
                         THEN [vadEnds EXCEPT ![o][gen[o]] = @ + 1]
                         ELSE vadEnds
  /\ UNCHANGED << hvars, evars, sinceReset, pc, gen, alive, chunkIdx, results, str, joined, tasks,
                  metrics_mutex_, maccess, crashed, resetsApplied, nCalls >>

\* ---------------------------------------------------------- StreamingRecognize

\* Up to the generate call: the windowing parameters and the cache are read;
\* the cache is handed over only when non-empty.
StrStart(o) ==
  /\ ~crashed
  /\ str[o].st = "ready"
  /\ str' = [str EXCEPT ![o].st = "running",
                        ![o].passed = IF session[o].streaming_cache # EmptyCache
                                      THEN session[o].streaming_cache
                                      ELSE NoCachePassed]
  /\ Touch(o, "str", { <<"chunk_size", "r">>, <<"encoder_chunk_look_back", "r">>,
                       <<"decoder_chunk_look_back", "r">>, <<"streaming_cache", "r">> })
  /\ UNCHANGED << hvars, evars, sinceReset, pc, gen, alive, chunkIdx, session, results, vad, joined, tasks,
                  metrics_mutex_, maccess, crashed, vadEnds, resetsApplied, bk, nCalls >>

\* The generate call throws: catch (...) { current_metrics_.total_requests++; }
\* without metrics_mutex_.
StrFail(o) ==
  /\ ~crashed
  /\ str[o].st = "running"
  /\ str' = [str EXCEPT ![o].st = "errwrite", ![o].failed = TRUE,
                        ![o].res = EmptyResult]
  /\ BeginAccess(StrThread(o), "w")
  /\ UNCHANGED << hvars, evars, sinceReset, pc, gen, alive, chunkIdx, session, results, vad, joined, tasks,
                  metrics_mutex_, crashed, touched, vadEnds, resetsApplied, bk, nCalls >>

StrErrDone(o) ==
  /\ ~crashed
  /\ str[o].st = "errwrite"
  /\ str' = [str EXCEPT ![o].st = "done"]
  /\ EndAccess(StrThread(o))
  /\ UNCHANGED << hvars, evars, sinceReset, pc, gen, alive, chunkIdx, session, results, vad, joined, tasks,
                  metrics_mutex_, crashed, touched, vadEnds, resetsApplied, bk, nCalls >>

\* The generate call returns: cache write-back (only if one was handed over),
\* ParseRecognitionResult, is_final = false, is_online_result = true.
StrFinish(o) ==
  /\ ~crashed
  /\ str[o].st = "running"
  /\ \E out \in AsrOutcomes \ {"fail"} :
       LET p == str[o].passed
       IN  /\ str' = [str EXCEPT ![o].st = "parsed",
                          ![o].res = [EmptyResult EXCEPT !.text = out,
                                                         !.is_online_result = TRUE]]
           /\ IF p # NoCachePassed
              THEN /\ session' = [session EXCEPT ![o].streaming_cache = BackendCache(p)]
                   /\ Touch(o, "str", { <<"streaming_cache", "w">> })
              ELSE UNCHANGED << session, touched >>
           /\ bk' = [bk EXCEPT ![o].str = BackendCache(p)]
  /\ UNCHANGED << hvars, evars, sinceReset, pc, gen, alive, chunkIdx, results, vad, joined, tasks,
                  metrics_mutex_, maccess, crashed, vadEnds, resetsApplied, nCalls >>

\* { std::lock_guard lock(metrics_mutex_); total_requests++; ...
StrLock(o) ==
  /\ ~crashed
  /\ str[o].st = "parsed"
  /\ metrics_mutex_ = Free
  /\ metrics_mutex_' = StrThread(o)
  /\ BeginAccess(StrThread(o), "w")
  /\ str' = [str EXCEPT ![o].st = "locked"]
  /\ UNCHANGED << hvars, evars, sinceReset, pc, gen, alive, chunkIdx, session, results, vad, joined, tasks,
                  crashed, touched, vadEnds, resetsApplied, bk, nCalls >>

\* } and the log line then reads current_metrics_.streaming_rtf, the lock
\* released.
StrUnlock(o) ==
  /\ ~crashed
  /\ str[o].st = "locked"
  /\ metrics_mutex_' = Free
  /\ maccess' = { a \in maccess : a.t # StrThread(o) }
                  \cup { [t |-> StrThread(o), mode |-> "r"] }
  /\ str' = [str EXCEPT ![o].st = "logread"]
  /\ UNCHANGED << hvars, evars, sinceReset, pc, gen, alive, chunkIdx, session, results, vad, joined, tasks,
                  crashed, touched, vadEnds, resetsApplied, bk, nCalls >>

StrLogDone(o) ==
  /\ ~crashed
  /\ str[o].st = "logread"
  /\ EndAccess(StrThread(o))
  /\ str' = [str EXCEPT ![o].st = "done"]
  /\ UNCHANGED << hvars, evars, sinceReset, pc, gen, alive, chunkIdx, session, results, vad, joined, tasks,
                  metrics_mutex_, crashed, touched, vadEnds, resetsApplied, bk, nCalls >>

\* ------------------------------------------- the detached refinement thread
\* std::thread([this, complete_segment, &session]() {
\*     auto offline_result = OfflineRecognize(complete_segment, false, true);
\*     if (!offline_result.IsEmpty()) { ...; current_metrics_.offline_refinement_ms = ...; }
\*     session.Reset();
\* }).detach();

TaskIds == 1..Len(tasks)

\* The session a task's reference was bound to is still the caller's live one.
TargetLive(t) == alive[t.owner] /\ gen[t.owner] = t.gen

\* (mutation of AfterOfflineFailure: the failure ends the thread)
AfterOfflineFailure_Ends == "done"

\* Where the thread goes once OfflineRecognize has returned an empty result
\* because recognition threw: the if is skipped, session.Reset() is next.
AfterOfflineFailure == "toReset"

\* OfflineRecognize, whole-buffer recognition throws: caught inside
\* ("return result;"), the empty result comes back to the thread.
OffAsrFail(i) ==
  /\ ~crashed
  /\ i \in TaskIds
  /\ tasks[i].pc = "recognizing"
  /\ tasks' = [tasks EXCEPT ![i].failed = TRUE, ![i].res = EmptyResult,
                            ![i].pc = AfterOfflineFailure]
  /\ UNCHANGED << hvars, evars, sinceReset, pc, gen, alive, chunkIdx, session, results, vad, str, joined,
                  metrics_mutex_, maccess, crashed, touched, vadEnds,
                  resetsApplied, bk, nCalls >>

\* OfflineRecognize, whole-buffer recognition returns a text: punctuation
\* is next when the text is non-empty, the metrics update otherwise.
OffAsr(i) ==
  /\ ~crashed
  /\ i \in TaskIds
  /\ tasks[i].pc = "recognizing"
  /\ \E out \in AsrOutcomes \ {"fail"} :
       tasks' = [tasks EXCEPT
                   ![i].res = [EmptyResult EXCEPT !.text = out],
                   ![i].pc = IF out = "" THEN "needLock" ELSE "punc"]
  /\ UNCHANGED << hvars, evars, sinceReset, pc, gen, alive, chunkIdx, session, results, vad, str, joined,
                  metrics_mutex_, maccess, crashed, touched, vadEnds,
                  resetsApplied, bk, nCalls >>

\* AddPunctuation: on a text answer current_metrics_.punctuation_ms is
\* written (metrics_mutex_ is not taken); otherwise the text is kept.
OffPunc(i) ==
  /\ ~crashed
  /\ i \in TaskIds
  /\ tasks[i].pc = "punc"
  /\ \E out \in PuncOutcomes :
       IF out = "ok"
       THEN /\ tasks' = [tasks EXCEPT ![i].res.text = "t.", ![i].pc = "puncWrite"]
            /\ BeginAccess(TaskThread(i), "w")
       ELSE /\ tasks' = [tasks EXCEPT ![i].pc = "needLock"]
            /\ UNCHANGED maccess
  /\ UNCHANGED << hvars, evars, sinceReset, pc, gen, alive, chunkIdx, session, results, vad, str, joined,
                  metrics_mutex_, crashed, touched, vadEnds, resetsApplied, bk, nCalls >>

OffPuncDone(i) ==
  /\ ~crashed
  /\ i \in TaskIds
  /\ tasks[i].pc = "puncWrite"
  /\ EndAccess(TaskThread(i))
  /\ tasks' = [tasks EXCEPT ![i].pc = "needLock"]
  /\ UNCHANGED << hvars, evars, sinceReset, pc, gen, alive, chunkIdx, session, results, vad, str, joined,
                  metrics_mutex_, crashed, touched, vadEnds, resetsApplied, bk, nCalls >>

\* result.is_final = result.is_offline_result = true;
\* { std::lock_guard lock(metrics_mutex_); total_requests++; ...
OffLock(i) ==
  /\ ~crashed
  /\ i \in TaskIds
  /\ tasks[i].pc = "needLock"
  /\ metrics_mutex_ = Free
  /\ metrics_mutex_' = TaskThread(i)
  /\ BeginAccess(TaskThread(i), "w")
  /\ tasks' = [tasks EXCEPT ![i].pc = "offLocked",
                            ![i].res = TagOffline(@)]
  /\ UNCHANGED << hvars, evars, sinceReset, pc, gen, alive, chunkIdx, session, results, vad, str, joined,
                  crashed, touched, vadEnds, resetsApplied, bk, nCalls >>

\* } OfflineRecognize returns; a non-empty result makes the thread write
\* current_metrics_.offline_refinement_ms (metrics_mutex_ is not taken).
OffUnlock(i) ==
  /\ ~crashed
  /\ i \in TaskIds
  /\ tasks[i].pc = "offLocked"
  /\ metrics_mutex_' = Free
  /\ IF IsEmpty(tasks[i].res)
     THEN /\ EndAccess(TaskThread(i))
          /\ tasks' = [tasks EXCEPT ![i].pc = "toReset", ![i].res = EmptyResult]
     ELSE /\ UNCHANGED maccess
          /\ tasks' = [tasks EXCEPT ![i].pc = "refWrite"]
  /\ UNCHANGED << hvars, evars, sinceReset, pc, gen, alive, chunkIdx, session, results, vad, str, joined,
                  crashed, touched, vadEnds, resetsApplied, bk, nCalls >>

RefWriteDone(i) ==
  /\ ~crashed
  /\ i \in TaskIds
  /\ tasks[i].pc = "refWrite"
  /\ EndAccess(TaskThread(i))
  /\ tasks' = [tasks EXCEPT ![i].pc = "toReset", ![i].res = EmptyResult]
  /\ UNCHANGED << hvars, evars, sinceReset, pc, gen, alive, chunkIdx, session, results, vad, str, joined,
                  metrics_mutex_, crashed, touched, vadEnds, resetsApplied, bk, nCalls >>

\* session.Reset() is entered, through the reference captured at launch.
ResetBegin(i) ==
  /\ ~crashed
  /\ i \in TaskIds
  /\ tasks[i].pc = "toReset"
  /\ tasks' = [tasks EXCEPT ![i].pc = "resetting"]
  /\ UNCHANGED << hvars, evars, sinceReset, pc, gen, alive, chunkIdx, session, results, vad, str, joined,
                  metrics_mutex_, maccess, crashed, touched, vadEnds,
                  resetsApplied, bk, nCalls >>

\* What Reset leaves when audio_buffer.insert of a call ran during it (a data
\* race on the vector), as pairs <<session, chunks since the Reset>>:
\* the clear came last; the clear came first and the chunks were appended
\* to the emptied buffer; or the insert stored the end pointer it had
\* computed before the clear, which undoes the clear.
RacedResetOutcomes(s, raced) ==
  IF raced = << >> THEN { << Reset(s), << >> >> }
  ELSE { << Reset(s), << >> >>,
         << [Reset(s) EXCEPT !.audio_buffer = raced], raced >>,
         << [Reset(s) EXCEPT !.audio_buffer = s.audio_buffer], raced >> }

\* session.Reset() has run and the thread ends.
ResetEnd(i) ==
  /\ ~crashed
  /\ i \in TaskIds
  /\ tasks[i].pc = "resetting"
  /\ LET t == tasks[i]
         o == t.owner
     IN  IF TargetLive(t)
         THEN /\ \E r \in RacedResetOutcomes(session[o], t.raced) :
                   /\ session' = [session EXCEPT ![o] = r[1]]
                   /\ sinceReset' = [sinceReset EXCEPT ![o] = r[2]]
              /\ resetsApplied' = [resetsApplied EXCEPT ![o][t.gen] = @ + 1]
              /\ tasks' = [tasks EXCEPT ![i].pc = "done", ![i].resetOn = "live",
                                        ![i].raced = << >>]
              /\ UNCHANGED crashed
         ELSE /\ tasks' = [tasks EXCEPT ![i].pc = "done", ![i].resetOn = "dead",
                                        ![i].raced = << >>]
              \* what the write through the dangling reference does: it
              \* lands in storage nobody reads again, in the session that
              \* now lives in the same storage, or it faults
              /\ \E out \in {"none", "clobber", "crash"} :
                   CASE out = "none" ->
                          UNCHANGED << session, sinceReset, resetsApplied, crashed >>
                     [] out = "clobber" ->
                          /\ alive[o]
                          /\ \E r \in RacedResetOutcomes(session[o], t.raced) :
                               /\ session' = [session EXCEPT ![o] = r[1]]
                               /\ sinceReset' = [sinceReset EXCEPT ![o] = r[2]]
                          /\ resetsApplied' = [resetsApplied EXCEPT ![o][gen[o]] = @ + 1]
                          /\ UNCHANGED crashed
                     [] out = "crash" ->
                          /\ crashed' = TRUE
                          /\ UNCHANGED << session, sinceReset, resetsApplied >>
  /\ UNCHANGED << hvars, evars, pc, gen, alive, chunkIdx, results, vad, str, joined,
                  metrics_mutex_, maccess, touched, vadEnds, bk, nCalls >>

\* ------------------------------------------------------ GetPerformanceMetrics

\* std::lock_guard lock(metrics_mutex_); auto metrics = current_metrics_;
SnapshotLock ==
  /\ ~crashed
  /\ metrics_mutex_ = Free
  /\ metrics_mutex_' = MainThread
  /\ BeginAccess(MainThread, "r")
  /\ UNCHANGED << hvars, evars, sinceReset, pc, gen, alive, chunkIdx, session, results, vad, str, joined,
                  tasks, crashed, touched, vadEnds, resetsApplied, bk, nCalls >>

SnapshotUnlock ==
  /\ ~crashed
  /\ metrics_mutex_ = MainThread
  /\ metrics_mutex_' = Free
  /\ EndAccess(MainThread)
  /\ UNCHANGED << hvars, evars, sinceReset, pc, gen, alive, chunkIdx, session, results, vad, str, joined,
                  tasks, crashed, touched, vadEnds, resetsApplied, bk, nCalls >>

\* ------------------------------------------------------------ specification





Next ==
  \/ \E o \in Owners :
       \/ NewFile(o) \/ SkipFile(o) \/ EndFile(o)
       \/ Call(o) \/ GetStreaming(o) \/ GetVad(o) \/ Endpoint(o)
       \/ LockMetrics(o) \/ Return(o)
       \/ VadStart(o) \/ VadFail(o) \/ VadFinish(o)
       \/ StrStart(o) \/ StrFail(o) \/ StrErrDone(o)
       \/ StrFinish(o) \/ StrLock(o) \/ StrUnlock(o) \/ StrLogDone(o)
  \/ \E i \in 1..MaxTasks :
       \/ OffAsrFail(i) \/ OffAsr(i) \/ OffPunc(i) \/ OffPuncDone(i)
       \/ OffLock(i) \/ OffUnlock(i) \/ RefWriteDone(i)
       \/ ResetBegin(i) \/ ResetEnd(i)
  \/ SnapshotLock
  \/ SnapshotUnlock

Spec == Init /\ [][Next]_vars

\* =============================================== the engine called directly
\* Worker threads calling StreamingRecognize, OfflineRecognize and
\* UpdateMetrics on one engine; current_metrics_ carries its values.

\* StreamingRecognize is entered: the kwargs are built, the session's cache
\* is handed over only when non-empty.
SCall(w) ==
  /\ op[w].pc = "idle"
  /\ nOps > 0
  /\ nOps' = nOps - 1
  /\ \E fin \in BOOLEAN :
       op' = [op EXCEPT ![w] =
                [@ EXCEPT !.kind = "streaming", !.pc = "s_gen",
                          !.args = [audio |-> 9600, is_final |-> fin],
                          !.passed = IF op[w].session.streaming_cache # EmptyCache
                                     THEN op[w].session.streaming_cache
                                     ELSE NoCachePassed]]
  /\ UNCHANGED << hvars, tvars, metrics_mutex_, current_metrics_, config_ >>

\* streaming_model_.generate throws: the catch block reads total_requests
\* (metrics_mutex_ is not taken).
SGenFail(w) ==
  /\ op[w].pc = "s_gen"
  /\ op' = [op EXCEPT ![w].pc = "s_err", ![w].failed = TRUE,
                      ![w].res = EmptyResult,
                      ![w].rd = current_metrics_.total_requests]
  /\ UNCHANGED << hvars, tvars, metrics_mutex_, current_metrics_, config_, nOps >>

\* ... and stores the incremented value; the empty result is returned.
SErrInc(w) ==
  /\ op[w].pc = "s_err"
  /\ current_metrics_' =
       [current_metrics_ EXCEPT !.total_requests = op[w].rd + 1]
  /\ op' = [op EXCEPT ![w].pc = "ret", ![w].incTotal = @ + 1]
  /\ UNCHANGED << hvars, tvars, metrics_mutex_, config_, nOps >>

\* generate returns: cache write-back (only if one was handed over), the
\* result is parsed, is_final and is_online_result are set.
SGenOk(w) ==
  /\ op[w].pc = "s_gen"
  /\ \E out \in AsrOutcomes \ {"fail"} :
       op' = [op EXCEPT ![w] =
                [@ EXCEPT !.pc = "s_lock",
                          !.res = [EmptyResult EXCEPT !.text = out,
                                                      !.is_final = op[w].args.is_final,
                                                      !.is_online_result = TRUE],
                          !.session = IF op[w].passed # NoCachePassed
                                      THEN [@ EXCEPT !.streaming_cache =
                                                        BackendCache(op[w].passed)]
                                      ELSE @]]
  /\ UNCHANGED << hvars, tvars, metrics_mutex_, current_metrics_, config_, nOps >>

\* { lock_guard; total_requests++; if (!result.IsEmpty()) { ... } }
SLock(w) ==
  /\ op[w].pc = "s_lock"
  /\ metrics_mutex_ = Free
  /\ metrics_mutex_' = Worker(w)
  /\ current_metrics_' =
       IF IsEmpty(op[w].res)
       THEN [current_metrics_ EXCEPT !.total_requests = @ + 1]
       ELSE [current_metrics_ EXCEPT
               !.total_requests = @ + 1,
               !.success_requests = @ + 1,
               !.streaming_rtf = 1,
               !.online_latency_ms = 1,
               !.total_audio_processed_hours = @ + op[w].args.audio]
  /\ op' = [op EXCEPT ![w].pc = "s_locked",
                      ![w].incTotal = @ + 1,
                      ![w].incSuccess = IF IsEmpty(op[w].res) THEN @ ELSE @ + 1]
  /\ UNCHANGED << hvars, tvars, config_, nOps >>

SUnlock(w) ==
  /\ op[w].pc = "s_locked"
  /\ metrics_mutex_' = Free
  /\ op' = [op EXCEPT ![w].pc = "ret"]
  /\ UNCHANGED << hvars, tvars, current_metrics_, config_, nOps >>

\* OfflineRecognize from its entry to the metrics block: resampling, the
\* VAD block, whole-buffer recognition, punctuation, the result's flags.
\* Three ways on: a throw outside the inner try blocks lands in the outer
\* catch, which reads total_requests (metrics_mutex_ is not taken); a throw
\* of the whole-buffer recognition returns the default result at once;
\* otherwise the metrics block is next.
OCall(w) ==
  /\ op[w].pc = "idle"
  /\ nOps > 0
  /\ nOps' = nOps - 1
  /\ \E args \in [ audio : {48000, 144000}, enable_vad : BOOLEAN,
                   enable_punctuation : BOOLEAN ] :
     \E ans \in OfflineAnswersFor(args, config_.enable_audio_resampling) :
       LET t  == OfflineText(args, config_.enable_audio_resampling, ans)
           o0 == [op[w] EXCEPT !.kind = "offline", !.args = args,
                               !.answers = ans.vad]
       IN  IF ans.pre = "throw"
           THEN /\ op' = [op EXCEPT ![w] =
                            [o0 EXCEPT !.pc = "o_err", !.failed = TRUE,
                                       !.rd = current_metrics_.total_requests]]
                /\ UNCHANGED current_metrics_
           ELSE /\ op' = [op EXCEPT ![w] =
                            IF t.early
                            THEN [o0 EXCEPT !.pc = "ret", !.failed = TRUE,
                                            !.vadRuns = t.vadRuns,
                                            !.recognized = t.recognized]
                            ELSE [o0 EXCEPT !.pc = "o_lock",
                                            !.vadRuns = t.vadRuns,
                                            !.recognized = t.recognized,
                                            !.raw = t.raw,
                                            !.puncRuns = t.puncRuns,
                                            !.puncFailed = t.puncFailed,
                                            !.res = TagOffline(
                                                      [EmptyResult EXCEPT
                                                         !.text = t.text])]]
                /\ current_metrics_' =
                     IF t.puncWritten
                     THEN [current_metrics_ EXCEPT !.punctuation_ms = 1]
                     ELSE current_metrics_
  /\ UNCHANGED << hvars, tvars, metrics_mutex_, config_ >>

\* { lock_guard; total_requests++; if (!result.IsEmpty()) { ... } }
OLock(w) ==
  /\ op[w].pc = "o_lock"
  /\ metrics_mutex_ = Free
  /\ metrics_mutex_' = Worker(w)
  /\ current_metrics_' =
       IF IsEmpty(op[w].res)
       THEN [current_metrics_ EXCEPT !.total_requests = @ + 1]
       ELSE [current_metrics_ EXCEPT
               !.total_requests = @ + 1,
               !.success_requests = @ + 1,
               !.offline_rtf = 1,
               !.total_audio_processed_hours =
                  @ + WorkingSize(op[w].args.audio, config_.enable_audio_resampling)]
  /\ op' = [op EXCEPT ![w].pc = "o_locked",
                      ![w].incTotal = @ + 1,
                      ![w].incSuccess = IF IsEmpty(op[w].res) THEN @ ELSE @ + 1]
  /\ UNCHANGED << hvars, tvars, config_, nOps >>

OUnlock(w) ==
  /\ op[w].pc = "o_locked"
  /\ metrics_mutex_' = Free
  /\ op' = [op EXCEPT ![w].pc = "ret"]
  /\ UNCHANGED << hvars, tvars, current_metrics_, config_, nOps >>

\* The outer catch stores the incremented total_requests.
OErrInc(w) ==
  /\ op[w].pc = "o_err"
  /\ current_metrics_' =
       [current_metrics_ EXCEPT !.total_requests = op[w].rd + 1]
  /\ op' = [op EXCEPT ![w].pc = "ret", ![w].incTotal = @ + 1]
  /\ UNCHANGED << hvars, tvars, metrics_mutex_, config_, nOps >>

\* UpdateMetrics: the merge, all of it under metrics_mutex_.
UCall(w) ==
  /\ op[w].pc = "idle"
  /\ nOps > 0
  /\ metrics_mutex_ = Free
  /\ nOps' = nOps - 1
  /\ \E p \in Partials :
       /\ current_metrics_' = MergeMetrics(current_metrics_, p)
       /\ op' = [op EXCEPT ![w].kind = "update", ![w].pc = "ret",
                           ![w].partial = p]
  /\ UNCHANGED << hvars, tvars, metrics_mutex_, config_ >>

\* The call has returned and its result is dropped by the caller.
Ret(w) ==
  /\ op[w].pc = "ret"
  /\ op' = [op EXCEPT ![w] = [IdleOp EXCEPT !.session = op[w].session]]
  /\ UNCHANGED << hvars, tvars, metrics_mutex_, current_metrics_, config_, nOps >>


\* The engine is initialized, no call is in progress.
EngineInit ==
  /\ TwoPassInit
  /\ HarnessIdle
  /\ current_metrics_ \in InitializedMetrics
  /\ config_ \in [enable_audio_resampling : BOOLEAN]
  /\ op = [w \in Workers |-> IdleOp]
  /\ nOps = MaxOps

EngineNext ==
  \E w \in Workers :
    \/ SCall(w) \/ SGenFail(w) \/ SErrInc(w) \/ SGenOk(w) \/ SLock(w) \/ SUnlock(w)
    \/ OCall(w) \/ OLock(w) \/ OUnlock(w) \/ OErrInc(w)
    \/ UCall(w) \/ Ret(w)

EngineSpec == EngineInit /\ [][EngineNext]_vars

\* ------------------------------------- StreamingRecognize calls on their own

\* The engine is initialized; the worker threads make StreamingRecognize
\* calls only, one more than the calls of EngineSpec.
StreamInit ==
  /\ TwoPassInit
  /\ HarnessIdle
  /\ current_metrics_ \in InitializedMetrics
  /\ config_ \in [enable_audio_resampling : BOOLEAN]
  /\ op = [w \in Workers |-> IdleOp]
  /\ nOps = MaxOps + 1

StreamNext ==
  \E w \in Workers :
    \/ SCall(w) \/ SGenFail(w) \/ SErrInc(w) \/ SGenOk(w) \/ SLock(w) \/ SUnlock(w)
    \/ Ret(w)

StreamSpec == StreamInit /\ [][StreamNext]_vars

\* ============================================== ParseVADResult on its own

\* The backend has answered with a list of segments.
ParseInit ==
  /\ TwoPassInit /\ EngineIdle
  /\ suite = NoSuite /\ fn = NoFn
  /\ bench = NoBench /\ bw = [i \in 0..(MaxWorkers - 1) |-> NoWorker]
  /\ td = NoTeardown /\ rt = [i \in 1..MaxRefine |-> NoRefine]
  /\ mp = NoMain
  /\ \E segs \in SegLists : parse = [ st |-> "in", segs |-> segs, out |-> EmptyVAD ]

\* ParseVADResult(result, inference_time_ms)
ParseCall ==
  /\ parse.st = "in"
  /\ parse' = [ parse EXCEPT !.st = "out", !.out = ParseVADResult(parse.segs) ]
  /\ UNCHANGED << tvars, metrics_mutex_, evars, suite, fn, bench, bw, td, rt, mp >>

ParseNext == ParseCall

ParseSpec == ParseInit /\ [][ParseNext]_vars

\* ============================================= TestConcurrentPerformance

\* TestConcurrentPerformance is entered on an initialized engine: the file
\* list is not empty, max_concurrent_sessions is at least 1.
BenchInit ==
  /\ TwoPassInit /\ EngineIdle
  /\ suite = NoSuite /\ fn = NoFn
  /\ parse = NoParse /\ mp = NoMain
  /\ td = NoTeardown /\ rt = [i \in 1..MaxRefine |-> NoRefine]
  /\ \E n \in 1..MaxBenchFiles, nw \in 1..MaxWorkers :
       bench = [ NoBench EXCEPT !.pc = "spawn", !.files = n, !.num_workers = nw ]
  /\ bw = [i \in 0..(MaxWorkers - 1) |-> NoWorker]

\* One round of the spawn loop: worker_files is built and the worker is
\* started with std::async. An exception of the range copy leaves the
\* function through the destructors of the futures made so far.
BSpawn ==
  /\ bench.pc = "spawn"
  /\ bench.i < bench.num_workers
  /\ LET start_idx == StartIdx(bench.i, bench.files, bench.num_workers)
         end_idx   == EndIdx(bench.i, bench.files, bench.num_workers)
     IN  \E out \in RangeOutcomes(start_idx, end_idx, bench.files) :
           CASE out = "copied" ->
                  /\ bw' = [ bw EXCEPT ![bench.i] =
                               [ NoWorker EXCEPT !.st = "running",
                                                 !.start_idx = start_idx,
                                                 !.end_idx = end_idx,
                                                 !.pos = start_idx ] ]
                  /\ bench' = [ bench EXCEPT !.i = @ + 1 ]
             [] out = "throws" ->
                  /\ bench' = [ bench EXCEPT !.pc = "unwind" ]
                  /\ UNCHANGED bw
             [] out = "crash" ->
                  /\ bench' = [ bench EXCEPT !.pc = "crashed" ]
                  /\ UNCHANGED bw
  /\ UNCHANGED << tvars, metrics_mutex_, evars, suite, fn, parse, td, rt, mp >>

\* The spawn loop is over.
BSpawned ==
  /\ bench.pc = "spawn"
  /\ bench.i = bench.num_workers
  /\ bench' = [ bench EXCEPT !.pc = "wait", !.k = 0 ]
  /\ UNCHANGED bw
  /\ UNCHANGED << tvars, metrics_mutex_, evars, suite, fn, parse, td, rt, mp >>

\* for (auto& future : futures) future.wait();
BWait ==
  /\ bench.pc = "wait"
  /\ bench.k < bench.num_workers
  /\ bw[bench.k].st = "done"
  /\ bench' = [ bench EXCEPT !.k = @ + 1 ]
  /\ UNCHANGED bw
  /\ UNCHANGED << tvars, metrics_mutex_, evars, suite, fn, parse, td, rt, mp >>

\* The aggregation loop over worker_results, and the return.
BAggregate ==
  /\ bench.pc = "wait"
  /\ bench.k = bench.num_workers
  /\ LET V == ValidResults(bench.worker_results, bench.num_workers)
     IN  bench' = [ bench EXCEPT !.pc = "returned",
                                 !.total_rtf = SumOver(bench.worker_results, V),
                                 !.valid_results = Cardinality(V),
                                 !.concurrent_sessions = bench.num_workers ]
  /\ UNCHANGED bw
  /\ UNCHANGED << tvars, metrics_mutex_, evars, suite, fn, parse, td, rt, mp >>

\* Stack unwinding: ~future of a std::async future waits for its thread.
BUnwind ==
  /\ bench.pc = "unwind"
  /\ \A i \in 0..(MaxWorkers - 1) : bw[i].st # "running"
  /\ bench' = [ bench EXCEPT !.pc = "threw" ]
  /\ UNCHANGED bw
  /\ UNCHANGED << tvars, metrics_mutex_, evars, suite, fn, parse, td, rt, mp >>

\* ConcurrentTestWorker, one file of worker_files: skipped when invalid,
\* streamed chunk by chunk otherwise; an exception lands in the worker's
\* catch block, which leaves results[worker_id] alone.
WFile(i) ==
  /\ bench.pc # "crashed"
  /\ bw[i].st = "running"
  /\ bw[i].pos < bw[i].end_idx
  /\ \E out \in {"invalid", "ok", "throw"} :
       bw' = [ bw EXCEPT ![i] =
                 CASE out = "invalid" -> [ @ EXCEPT !.pos = @ + 1 ]
                   [] out = "ok" -> [ @ EXCEPT !.pos = @ + 1, !.pushed = @ + 1 ]
                   [] out = "throw" -> [ @ EXCEPT !.st = AfterWorkerThrow, !.threw = TRUE ] ]
  /\ UNCHANGED bench
  /\ UNCHANGED << tvars, metrics_mutex_, evars, suite, fn, parse, td, rt, mp >>

\* The files are done: the mean of rtf_values (if any) is stored in
\* results[worker_id].
WFinish(i) ==
  /\ bench.pc # "crashed"
  /\ bw[i].st = "running"
  /\ bw[i].pos = bw[i].end_idx
  /\ \E r \in 1..2 :
       bench' = [ bench EXCEPT !.worker_results[i] =
                                  IF bw[i].pushed > 0 THEN r ELSE 0 ]
  /\ bw' = [ bw EXCEPT ![i].st = "done" ]
  /\ UNCHANGED << tvars, metrics_mutex_, evars, suite, fn, parse, td, rt, mp >>

BenchMain == BSpawn \/ BSpawned \/ BWait \/ BAggregate \/ BUnwind
BenchWorker(i) == WFile(i) \/ WFinish(i)

BenchNext == BenchMain \/ \E i \in 0..(MaxWorkers - 1) : BenchWorker(i)

BenchSpec == BenchInit /\ [][BenchNext]_vars

\* Every thread that can run does run.
BenchLive ==
  /\ BenchSpec
  /\ WF_vars(BenchMain)
  /\ \A i \in 0..(MaxWorkers - 1) : WF_vars(BenchWorker(i))

\* ================================================================ teardown

\* An initialized engine whose test thread makes TwoPassRecognize calls.
TeardownInit ==
  /\ TwoPassInit /\ EngineIdle
  /\ suite = NoSuite /\ fn = NoFn
  /\ parse = NoParse /\ mp = NoMain
  /\ bench = NoBench /\ bw = [i \in 0..(MaxWorkers - 1) |-> NoWorker]
  /\ td = NoTeardown /\ rt = [i \in 1..MaxRefine |-> NoRefine]

\* A TwoPassRecognize call of the test thread meets a speech end:
\* std::thread([this, complete_segment, &session]() {...}).detach();
TLaunch(i) ==
  /\ td.process = "running"
  /\ td.test_thread_ = "running"
  /\ rt[i].pc = "none"
  /\ rt' = [ rt EXCEPT ![i].pc = "recognizing" ]
  /\ UNCHANGED td
  /\ UNCHANGED << tvars, metrics_mutex_, evars, suite, fn, parse, bench, bw, mp >>

\* The lambda of the test thread ends.
TTestEnds ==
  /\ td.process = "running"
  /\ td.test_thread_ = "running"
  /\ td' = [ td EXCEPT !.test_thread_ = "finished" ]
  /\ UNCHANGED rt
  /\ UNCHANGED << tvars, metrics_mutex_, evars, suite, fn, parse, bench, bw, mp >>

\* A step of a refinement thread through engine code: the inference of
\* OfflineRecognize, its metrics block, the write of
\* offline_refinement_ms and session.Reset().
RStep(i) ==
  /\ td.process = "running"
  /\ rt[i].pc \in {"recognizing", "metrics", "reset"}
  /\ rt' = [ rt EXCEPT ![i].pc = CASE @ = "recognizing" -> "metrics"
                                     [] @ = "metrics" -> "reset"
                                     [] @ = "reset" -> "done",
                        ![i].afterDtor = @ \/ (td.engine = "destroyed"
                                                /\ rt[i].pc # "reset") ]
  /\ UNCHANGED td
  /\ UNCHANGED << tvars, metrics_mutex_, evars, suite, fn, parse, bench, bw, mp >>

\* ~FunASREngine is entered (g_engine.reset() in SignalHandler, or the
\* static destruction after main): testing_active_ = false.
DBegin ==
  /\ td.process = "running"
  /\ td.engine = "alive"
  /\ td' = [ td EXCEPT !.engine = "joining" ]
  /\ UNCHANGED rt
  /\ UNCHANGED << tvars, metrics_mutex_, evars, suite, fn, parse, bench, bw, mp >>

\* test_thread_.join() returns and the destructor ends; the members
\* (models, metrics_mutex_, current_metrics_) are destroyed.
DJoin ==
  /\ td.process = "running"
  /\ td.engine = "joining"
  /\ td.test_thread_ = "finished"
  /\ td' = [ td EXCEPT !.engine = "destroyed", !.test_thread_ = "joined" ]
  /\ UNCHANGED rt
  /\ UNCHANGED << tvars, metrics_mutex_, evars, suite, fn, parse, bench, bw, mp >>

\* exit(0), or the return of main: the process ends and takes the
\* detached threads with it wherever they are.
PExit ==
  /\ td.process = "running"
  /\ td.engine = "destroyed"
  /\ td' = [ td EXCEPT !.process = "exited" ]
  /\ rt' = [ i \in 1..MaxRefine |->
               [ rt[i] EXCEPT !.cut = (rt[i].pc = "recognizing") ] ]
  /\ UNCHANGED << tvars, metrics_mutex_, evars, suite, fn, parse, bench, bw, mp >>

TeardownNext ==
  \/ \E i \in 1..MaxRefine : TLaunch(i) \/ RStep(i)
  \/ TTestEnds \/ DBegin \/ DJoin \/ PExit

TeardownSpec == TeardownInit /\ [][TeardownNext]_vars

\* ==================================================================== main

\* main is entered with a command line.
MainInit ==
  /\ TwoPassInit /\ EngineIdle
  /\ suite = NoSuite /\ fn = NoFn
  /\ parse = NoParse
  /\ bench = NoBench /\ bw = [i \in 0..(MaxWorkers - 1) |-> NoWorker]
  /\ td = NoTeardown /\ rt = [i \in 1..MaxRefine |-> NoRefine]
  /\ \E cl \in CommandLines : mp = [ NoMain EXCEPT !.pc = "parse", !.args = cl ]

\* One round of the loop of ParseCommandLine. When it returns false main
\* returns 0; an exception of std::stoi lands in the catch block of main.
PArg ==
  /\ mp.pc = "parse"
  /\ mp.i <= Len(mp.args)
  /\ LET arg == mp.args[mp.i]
     IN  mp' = CASE arg \in GoodArgs -> [ mp EXCEPT !.i = @ + 1 ]
                 [] arg \in InfoArgs ->
                      [ mp EXCEPT !.pc = "exit", !.refused = "info",
                                  !.exit = ParseFalseExit ]
                 [] arg \in BadArgs ->
                      [ mp EXCEPT !.pc = "exit", !.refused = "invalid",
                                  !.exit = ParseFalseExit ]
                 [] arg \in ThrowingArgs ->
                      [ mp EXCEPT !.pc = "exit", !.refused = "exception",
                                  !.exit = RefusedExit ]
  /\ UNCHANGED << tvars, metrics_mutex_, evars, suite, fn, parse, bench, bw, td, rt >>

\* ParseCommandLine returns true; ValidateConfig: the audio directory
\* exists or not.
PValidate ==
  /\ mp.pc = "parse"
  /\ mp.i > Len(mp.args)
  /\ \E ok \in BOOLEAN :
       mp' = IF ok THEN [ mp EXCEPT !.pc = "init" ]
             ELSE [ mp EXCEPT !.pc = "exit", !.refused = "config",
                              !.exit = RefusedExit ]
  /\ UNCHANGED << tvars, metrics_mutex_, evars, suite, fn, parse, bench, bw, td, rt >>

\* A step of Initialize. A false or an exception makes Initialize return
\* false and main return -1; after the last step initialized_ is set.
InitStep ==
  /\ mp.pc = "init"
  /\ \E out \in StepOutcomes(InitSteps[mp.step]) :
       mp' = IF out = "ok"
             THEN IF mp.step < Len(InitSteps)
                  THEN [ mp EXCEPT !.step = @ + 1 ]
                  ELSE [ mp EXCEPT !.pc = "run", !.initialized_ = TRUE ]
             ELSE [ mp EXCEPT !.pc = "exit", !.initFailed = InitSteps[mp.step],
                              !.exit = RefusedExit ]
  /\ UNCHANGED << tvars, metrics_mutex_, evars, suite, fn, parse, bench, bw, td, rt >>

\* RunPerformanceTests starts test_thread_.
RunTests ==
  /\ mp.pc = "run"
  /\ mp' = [ mp EXCEPT !.pc = "monitor", !.test_thread_ = TRUE ]
  /\ UNCHANGED << tvars, metrics_mutex_, evars, suite, fn, parse, bench, bw, td, rt >>

\* MonitorProgress and the report are over: "return 0;".
Complete ==
  /\ mp.pc = "monitor"
  /\ mp' = [ mp EXCEPT !.pc = "exit", !.exit = 0 ]
  /\ UNCHANGED << tvars, metrics_mutex_, evars, suite, fn, parse, bench, bw, td, rt >>

MainNext == PArg \/ PValidate \/ InitStep \/ RunTests \/ Complete

MainSpec == MainInit /\ [][MainNext]_vars

\* ================================ ResampleAudio and SimulateStreamingChunks

\* ResampleAudio with every output sample traced to the source indices
\* (0-based, as in the code) it is computed from: << idx, idx + 1 >> for an
\* interpolated sample, << size - 1, size - 1 >> for audio_data.back(), and
\* the sample itself when the two rates are equal (the input is returned).
\* src_index = i / ratio truncates to (i * from_rate) \div to_rate for the
\* rates 8000, 16000 and 24000.  This variant reads idx + 1 without the test on size.
ResampleAudio_Unguarded(size, from_rate, to_rate) ==
  IF from_rate = to_rate THEN [i \in 1..size |-> << i - 1, i - 1 >>]
  ELSE [i \in 1..ResampledSize(size, from_rate, to_rate) |->
          LET idx == ((i - 1) * from_rate) \div to_rate
          IN  << idx, idx + 1 >>]

ResampleAudio(size, from_rate, to_rate) ==
  IF from_rate = to_rate THEN [i \in 1..size |-> << i - 1, i - 1 >>]
  ELSE [i \in 1..ResampledSize(size, from_rate, to_rate) |->
          LET idx == ((i - 1) * from_rate) \div to_rate
          IN  IF idx + 1 < size THEN << idx, idx + 1 >>
              ELSE << size - 1, size - 1 >>]

\* const int chunk_samples = static_cast<int>((chunk_duration_ms / 1000.0)
\* * 16000), the duration given in 1/32 ms (every such duration is a double,
\* and for the durations used here the product is computed exactly).
ChunkSamples(d32) == (d32 * WorkingRate) \div 32000

\* A call of one of the two functions is about to be made: ResampleAudio on
\* a buffer of n0 samples, or SimulateStreamingChunks on a buffer whose
\* samples are numbered 1..n, with a positive chunk duration.
FnInit ==
  /\ TwoPassInit /\ EngineIdle
  /\ parse = NoParse /\ mp = NoMain /\ suite = NoSuite
  /\ bench = NoBench /\ bw = [i \in 0..(MaxWorkers - 1) |-> NoWorker]
  /\ td = NoTeardown /\ rt = [i \in 1..MaxRefine |-> NoRefine]
  /\ fn \in
       { [ f |-> "ResampleAudio", n0 |-> n, size |-> n, from_rate |-> a,
           to_rate |-> b, out |-> << >>, calls |-> 0 ] :
           n \in 0..MaxBufLen, a \in {8000, 16000, 24000},
           b \in {8000, 16000, 24000} }
       \cup
       { [ f |-> "SimulateStreamingChunks", pc |-> "call",
           audio_data |-> [k \in 1..n |-> k], d32 |-> d,
           chunk_samples |-> 0, i |-> 0, chunks |-> << >> ] :
           n \in 0..MaxBufLen, d \in 1..MaxDur32 }

\* A ResampleAudio call: the first one on the buffer and the rates drawn,
\* the second one on the output of the first, back to the first rate.
FResample ==
  /\ fn.f = "ResampleAudio" /\ fn.calls < 2
  /\ LET size == IF fn.calls = 0 THEN fn.n0 ELSE Len(fn.out)
         from == IF fn.calls = 0 THEN fn.from_rate ELSE fn.to_rate
         to   == IF fn.calls = 0 THEN fn.to_rate ELSE fn.from_rate
     IN  fn' = [ fn EXCEPT !.size = size, !.from_rate = from, !.to_rate = to,
                           !.out = ResampleAudio(size, from, to),
                           !.calls = @ + 1 ]
  /\ UNCHANGED << tvars, metrics_mutex_, evars, suite, parse, bench, bw, td,
                  rt, mp >>

\* SimulateStreamingChunks, one step: the computation of chunk_samples, then
\* one round of the loop per step, then the return.  emplace_back throws
\* std::bad_alloc when the memory is used up: here, when the vector holds
\* more chunks than the buffer has samples.
FChunk ==
  /\ fn.f = "SimulateStreamingChunks"
  /\ \/ /\ fn.pc = "call"
        /\ fn' = [ fn EXCEPT !.chunk_samples = ChunkSamples(fn.d32),
                             !.pc = "loop" ]
     \/ /\ fn.pc = "loop" /\ fn.i < Len(fn.audio_data)
        /\ LET end_idx == IF fn.i + fn.chunk_samples < Len(fn.audio_data)
                          THEN fn.i + fn.chunk_samples
                          ELSE Len(fn.audio_data)
           IN  IF Len(fn.chunks) > MaxBufLen
               THEN fn' = [ fn EXCEPT !.pc = "bad_alloc" ]
               ELSE fn' = [ fn EXCEPT
                      !.chunks = Append(@, SubSeq(fn.audio_data, fn.i + 1,
                                                  end_idx)),
                      !.i = @ + fn.chunk_samples ]
     \/ /\ fn.pc = "loop" /\ fn.i >= Len(fn.audio_data)
        /\ fn' = [ fn EXCEPT !.pc = "returned" ]
  /\ UNCHANGED << tvars, metrics_mutex_, evars, suite, parse, bench, bw, td,
                  rt, mp >>

FnNext == FResample \/ FChunk

FnSpec == FnInit /\ [][FnNext]_vars

\* The calling thread keeps running.
FnLive == FnSpec /\ WF_vars(FnNext)

\* ======================================================= RunPerformanceTests

\* The engine is initialized with a non-empty file list and at least one
\* test mode enabled (ValidateConfig); RunPerformanceTests is about to be
\* called.
SuiteInit ==
  /\ TwoPassInit
  /\ parse = NoParse /\ mp = NoMain /\ fn = NoFn
  /\ bench = NoBench /\ bw = [i \in 0..(MaxWorkers - 1) |-> NoWorker]
  /\ td = NoTeardown /\ rt = [i \in 1..MaxRefine |-> NoRefine]
  /\ current_metrics_ \in InitializedMetrics
  /\ config_ \in [enable_audio_resampling : BOOLEAN]
  /\ op = [w \in Workers |-> IdleOp]
  /\ nOps = 0
  /\ \E T \in (SUBSET {"offline", "streaming", "two_pass", "concurrent"})
                  \ {{}},
        n \in 1..MaxSuiteFiles :
       suite = [ NoSuite EXCEPT !.tests = T, !.files = n ]

\* RunPerformanceTests: testing_active_ = true, then the new thread is
\* move-assigned to test_thread_; std::thread's assignment calls
\* std::terminate when test_thread_ is joinable. The first call is main's,
\* which goes on to MonitorProgress.
SRun ==
  /\ ~suite.terminated
  /\ suite.engine = "alive"
  /\ suite.calls < MaxRuns
  /\ suite' =
       IF suite.test_thread_ # "none"
       THEN [ suite EXCEPT !.testing_active_ = TRUE, !.terminated = TRUE ]
       ELSE [ suite EXCEPT !.testing_active_ = TRUE,
                           !.test_thread_ = "running",
                           !.tpc = IF "offline" \in suite.tests
                                   THEN "files" ELSE "flag",
                           !.calls = @ + 1,
                           !.mon = "polling" ]
  /\ UNCHANGED << tvars, metrics_mutex_, evars, fn, parse, bench, bw, td, rt, mp >>

\* TestOfflinePerformance, one file (one second of 16 kHz audio): skipped
\* when invalid; OfflineRecognize(samples, true, true) otherwise, whose
\* metrics block counts the request and, for a non-empty result, adds the
\* duration of the audio it worked on; the test then adds the file's
\* duration to total_audio_duration. An exception lands in the catch block
\* of the thread.
TFile ==
  /\ ~suite.terminated
  /\ suite.tpc = "files"
  /\ suite.i < suite.files
  /\ \E out \in {"invalid", "empty", "ok", "throw"} :
       CASE out = "invalid" ->
              /\ suite' = [ suite EXCEPT !.i = @ + 1 ]
              /\ UNCHANGED current_metrics_
         [] out = "empty" ->
              /\ suite' = [ suite EXCEPT !.i = @ + 1 ]
              /\ current_metrics_' =
                   [ current_metrics_ EXCEPT !.total_requests = @ + 1 ]
         [] out = "ok" ->
              /\ suite' = [ suite EXCEPT !.i = @ + 1,
                                         !.rtf_values = @ + 1,
                                         !.total_audio_duration = @ + WorkingRate ]
              /\ current_metrics_' =
                   [ current_metrics_ EXCEPT
                       !.total_requests = @ + 1,
                       !.success_requests = @ + 1,
                       !.offline_rtf = 1,
                       !.total_audio_processed_hours =
                          @ + WorkingSize(WorkingRate, config_.enable_audio_resampling) ]
         [] out = "throw" ->
              /\ suite' = [ suite EXCEPT !.tpc = "flag", !.threw = TRUE ]
              /\ UNCHANGED current_metrics_
  /\ UNCHANGED << tvars, metrics_mutex_, config_, op, nOps, fn, parse, bench, bw,
                  td, rt, mp >>

\* The loop is over: TestOfflinePerformance returns its metrics (the
\* default object when no file succeeded) and UpdateMetrics merges them.
\* Nothing else is run: the thread body has no other test.
TMerge ==
  /\ ~suite.terminated
  /\ suite.tpc = "files"
  /\ suite.i = suite.files
  /\ current_metrics_' =
       MergeMetrics(current_metrics_,
                    IF suite.rtf_values > 0
                    THEN [ NewMetrics EXCEPT
                             !.offline_rtf = 1,
                             !.total_audio_processed_hours = suite.total_audio_duration,
                             !.test_files_count = suite.rtf_values ]
                    ELSE NewMetrics)
  /\ suite' = [ suite EXCEPT !.tpc = "flag", !.ran = @ \cup {"offline"} ]
  /\ UNCHANGED << tvars, metrics_mutex_, config_, op, nOps, fn, parse, bench, bw,
                  td, rt, mp >>

\* testing_active_ = false; the thread function returns.
TFlag ==
  /\ ~suite.terminated
  /\ suite.tpc = "flag"
  /\ suite' = [ suite EXCEPT !.testing_active_ = FALSE, !.tpc = "done",
                             !.test_thread_ = "finished" ]
  /\ UNCHANGED << tvars, metrics_mutex_, evars, fn, parse, bench, bw, td, rt, mp >>

\* MonitorProgress, one round of its loop: progress_count++, then the loop
\* is left when IsTestingActive() is false, and also when progress_count
\* has reached max_progress_cycles.
MPoll ==
  /\ ~suite.terminated
  /\ suite.mon = "polling"
  /\ suite' =
       IF ~suite.testing_active_
       THEN [ suite EXCEPT !.progress_count = @ + 1, !.mon = "finished" ]
       ELSE [ suite EXCEPT !.progress_count = @ + 1,
                           !.mon = IF suite.progress_count + 1 = MaxProgressCycles
                                   THEN "gaveup" ELSE "polling" ]
  /\ UNCHANGED << tvars, metrics_mutex_, evars, fn, parse, bench, bw, td, rt, mp >>

\* main has returned and g_engine is destroyed: ~FunASREngine begins with
\* testing_active_ = false.
SDestroy ==
  /\ ~suite.terminated
  /\ suite.mon \in {"finished", "gaveup"}
  /\ suite.engine = "alive"
  /\ suite' = [ suite EXCEPT !.testing_active_ = FALSE, !.engine = "destroying" ]
  /\ UNCHANGED << tvars, metrics_mutex_, evars, fn, parse, bench, bw, td, rt, mp >>

\* if (test_thread_.joinable()) test_thread_.join();
SJoin ==
  /\ ~suite.terminated
  /\ suite.engine = "destroying"
  /\ suite.test_thread_ = "finished"
  /\ suite' = [ suite EXCEPT !.test_thread_ = "none", !.engine = "destroyed" ]
  /\ UNCHANGED << tvars, metrics_mutex_, evars, fn, parse, bench, bw, td, rt, mp >>

SuiteNext == SRun \/ TFile \/ TMerge \/ TFlag \/ MPoll \/ SDestroy \/ SJoin

SuiteSpec == SuiteInit /\ [][SuiteNext]_vars

\* The test thread and the main thread both run when they can.
SuiteLive ==
  /\ SuiteSpec
  /\ WF_vars(TFile \/ TMerge \/ TFlag)
  /\ WF_vars(MPoll \/ SDestroy \/ SJoin)

\* ====================================================================== claims

\* The refinement threads launched for session g of caller o.
TasksOf(o, g) == { i \in TaskIds : tasks[i].owner = o /\ tasks[i].gen = g }

\* No call on session g of caller o is in progress and every refinement
\* launched for it has ended.
Quiescent(o, g) ==
  /\ gen[o] >= g
  /\ (gen[o] = g) => pc[o] \in {"call", "loop"}
  /\ \A i \in TasksOf(o, g) : tasks[i].pc = "done"

\* C1: once the chunk sequence of a session is processed and its refinement
\* threads have ended, a session for which VAD reported an endpoint exactly
\* once has had exactly one refinement launched and exactly one Reset applied
\* to it; and a refinement is never launched without a reported endpoint.
C1_OneRefinementOneReset ==
  \A o \in Owners : \A g \in Files :
    /\ Cardinality(TasksOf(o, g)) <= vadEnds[o][g]
    /\ (Quiescent(o, g) /\ vadEnds[o][g] = 1) =>
         (Cardinality(TasksOf(o, g)) = 1 /\ resetsApplied[o][g] = 1)

\* A sub-call of the TwoPassRecognize call of caller o is running.
SubCallRunning(o) ==
  \/ vad[o].st = "running"
  \/ str[o].st \in {"running", "errwrite", "parsed", "locked", "logread"}

\* C2: Reset never runs on a session while the VAD or streaming sub-call of
\* a later chunk of that session is in progress.
C2_ResetExcludesCalls ==
  \A i \in TaskIds :
    (tasks[i].pc = "resetting" /\ TargetLive(tasks[i])) =>
      ~(chunkIdx[tasks[i].owner] > tasks[i].chunk /\ SubCallRunning(tasks[i].owner))

\* C3: a refinement thread never runs Reset on a session that its owner has
\* already destroyed.
C3_NoResetAfterDestroy ==
  \A i \in TaskIds : tasks[i].pc = "resetting" => TargetLive(tasks[i])

\* The cache a call handed to the backend, as a cache value.
PassedCache(p) == IF p = NoCachePassed THEN EmptyCache ELSE p

\* C4: on a session that no Reset has touched, the cache the backend
\* produced in a call is what the session stores after the call, and it is
\* what the next call hands to the backend (streaming and VAD alike).
C4_CacheContinuity ==
  \A o \in Owners :
    (alive[o] /\ resetsApplied[o][gen[o]] = 0) =>
      /\ (str[o].st \in {"parsed", "locked", "logread", "done"} /\ ~str[o].failed)
           => session[o].streaming_cache = bk[o].str
      /\ str[o].st = "running" => PassedCache(str[o].passed) = bk[o].str
      /\ (vad[o].st = "done" /\ ~vad[o].failed)
           => session[o].vad_cache = bk[o].vad
      /\ vad[o].st = "running" => PassedCache(vad[o].passed) = bk[o].vad

\* C5: the call gets the streaming future first and the VAD future second,
\* each only once its task has run to its end (failed or not), and it has
\* got both when it returns.
C5_ForkJoin ==
  \A o \in Owners :
    /\ joined[o] \in { << >>, <<"streaming">>, <<"streaming", "vad">> }
    /\ Len(joined[o]) >= 1 => str[o].st = "done"
    /\ Len(joined[o]) >= 2 => vad[o].st = "done"
    /\ pc[o] \in {"gotStream", "vadMetric", "metrics", "locked"} => Len(joined[o]) >= 1
    /\ pc[o] \in {"vadMetric", "metrics", "locked"} => Len(joined[o]) = 2
    /\ (pc[o] = "call" /\ chunkIdx[o] >= 1) => Len(joined[o]) = 2

\* A call has returned with both futures got, one of the sub-tasks failed.
C5_Witness ==
  \E o \in Owners :
    /\ pc[o] = "call" /\ chunkIdx[o] >= 1
    /\ joined[o] = <<"streaming", "vad">>
    /\ vad[o].failed /\ ~str[o].failed

\* The refinement thread i was launched by the call of caller o that is in
\* progress or was the last to return.
LaunchedByLastCall(i, o) ==
  /\ tasks[i].owner = o /\ TargetLive(tasks[i])
  /\ tasks[i].chunk = chunkIdx[o]

\* C6 as stated: the return of the call never depends on the progress of
\* the refinement it launched, so the call is never at the metrics lock
\* while that refinement holds it.
C6_NeverWaitsOnRefinement ==
  \A o \in Owners : \A i \in TaskIds :
    (LaunchedByLastCall(i, o) /\ pc[o] = "metrics") => metrics_mutex_ # TaskThread(i)

\* C6 as amended: after it has got the VAD result the call never waits for
\* a refinement thread to end: each of its remaining steps is enabled
\* whatever the refinement threads are doing, the one exception being the
\* metrics lock, which must be free.
C6_ReturnNeedsOnlyTheLock ==
  \A o \in Owners :
    ~crashed =>
      /\ pc[o] = "vadMetric" => ENABLED Endpoint(o)
      /\ (pc[o] = "metrics" /\ metrics_mutex_ = Free) => ENABLED LockMetrics(o)
      /\ pc[o] = "locked" => ENABLED Return(o)

\* The call that launched a refinement has returned and the refinement is
\* still inside OfflineRecognize.
C6_Witness ==
  \E o \in Owners : \E i \in TaskIds :
    /\ LaunchedByLastCall(i, o)
    /\ pc[o] = "call"
    /\ tasks[i].pc = "recognizing"

C8_LockDiscipline ==
  /\ \A a \in maccess : a.mode = "w" => metrics_mutex_ = a.t
  /\ \A a, b \in maccess : (a.t # b.t) => (a.mode = "r" /\ b.mode = "r")

\* The windowing parameters of a session.
WindowingParams ==
  {"chunk_size", "encoder_chunk_look_back", "decoder_chunk_look_back"}

\* C9: within a call the VAD sub-task accesses only vad_cache, the
\* streaming sub-task only streaming_cache and, reading, the windowing
\* parameters; no field is accessed by both with one of them writing.
C9_DisjointFields ==
  \A o \in Owners :
    /\ \A a \in touched[o].vad : a[1] = "vad_cache"
    /\ \A a \in touched[o].str :
         \/ a[1] = "streaming_cache"
         \/ (a[1] \in WindowingParams /\ a[2] = "r")
    /\ \A a \in touched[o].vad : \A b \in touched[o].str :
         a[1] = b[1] => (a[2] = "r" /\ b[2] = "r")

\* Both sub-tasks of a call are inside their backend calls at once, each
\* having accessed the session.
C9_Witness ==
  \E o \in Owners :
    /\ vad[o].st = "running" /\ str[o].st = "running"
    /\ touched[o].vad # {} /\ touched[o].str # {}

\* C10: step 4 of a call sets is_speaking to false when the VAD result of
\* the chunk has an end (also when it has a start too), else to true when
\* it has a start, and else leaves it as it was.
C10_IsSpeaking ==
  [][ \A o \in Owners :
        (pc[o] = "vadMetric" /\ pc'[o] = "metrics") =>
          LET v == vad[o].res
          IN  /\ v.speech_end_ms # NoMs => session'[o].is_speaking = FALSE
              /\ (v.speech_end_ms = NoMs /\ v.speech_start_ms # NoMs)
                   => session'[o].is_speaking = TRUE
              /\ (v.speech_end_ms = NoMs /\ v.speech_start_ms = NoMs)
                   => session'[o].is_speaking = session[o].is_speaking ]_vars

\* The second chunk of a session has a VAD result with both a start and an
\* end, and step 4 has left is_speaking false.
C10_Witness ==
  \E o \in Owners :
    /\ pc[o] = "metrics" /\ chunkIdx[o] = 2
    /\ Len(session[o].audio_buffer) = 2
    /\ vad[o].res.speech_end_ms # NoMs /\ vad[o].res.speech_start_ms # NoMs
    /\ ~session[o].is_speaking

\* C11: a VAD sub-task whose backend call failed has ended with the default
\* VADResult (has_speech false, speech_end_ms -1); step 4 of that call then
\* launches no refinement and leaves the audio buffer as it is, and the call
\* reaches its return with the non-empty streaming result of the chunk at
\* the end of the result list.
C11_VadFailureIsSoft ==
  [][ \A o \in Owners :
        /\ (vad'[o].failed /\ vad'[o].st = "done") =>
             /\ vad'[o].res.has_speech = FALSE
             /\ vad'[o].res.speech_end_ms = NoMs
        /\ (pc[o] = "vadMetric" /\ pc'[o] = "metrics" /\ vad[o].failed) =>
             /\ tasks' = tasks
             /\ session'[o].audio_buffer = session[o].audio_buffer
        /\ (pc'[o] = "locked" /\ vad'[o].failed /\ str'[o].res.text # "") =>
             /\ results'[o] # << >>
             /\ results'[o][Len(results'[o])].text = str'[o].res.text ]_vars

\* A call whose VAD sub-task failed has returned: no refinement exists, the
\* chunk is in the buffer and the streaming result is in the list.
C11_Witness ==
  \E o \in Owners :
    /\ pc[o] = "call" /\ chunkIdx[o] = 1
    /\ vad[o].failed /\ vad[o].st = "done"
    /\ tasks = << >>
    /\ session[o].audio_buffer = <<1>>
    /\ Len(results[o]) = 1

\* C12: between its entry and its return a call changes the caller's result
\* list in one step only, the one that gets the streaming result: a
\* non-empty text appends exactly one entry, tagged is_online_result, and an
\* empty text appends nothing; the entries already there stay as they are.
C12_OneOnlineEntryPerCall ==
  [][ \A o \in Owners :
        (pc[o] # "loop" /\ pc'[o] # "loop") =>
          IF pc[o] = "forked" /\ pc'[o] = "gotStream" /\ str[o].res.text # ""
          THEN /\ Len(results'[o]) = Len(results[o]) + 1
               /\ SubSeq(results'[o], 1, Len(results[o])) = results[o]
               /\ results'[o][Len(results'[o])].is_online_result = TRUE
               /\ results'[o][Len(results'[o])].text = str[o].res.text
          ELSE results'[o] = results[o] ]_vars

\* Two calls of a file have returned, one with a text and one without: the
\* list holds one entry, tagged online.
C12_Witness ==
  \E o \in Owners :
    /\ pc[o] = "call" /\ chunkIdx[o] = 2
    /\ Len(results[o]) = 1
    /\ results[o][1].is_online_result /\ results[o][1].text # ""

\* C13: the audio buffer of a live session holds, in order, exactly the
\* chunks passed to TwoPassRecognize on it since the most recent Reset of
\* that session.
C13_BufferIsChunksSinceReset ==
  \A o \in Owners : alive[o] => session[o].audio_buffer = sinceReset[o]

\* C14: a StreamingRecognize call whose backend failed returns the empty
\* result, and the store of its catch block leaves total_requests exactly
\* one above what it was and success_requests as it was.
C14_FailedStreamingCountsOnce ==
  [][ \A w \in Workers :
        (op[w].pc = "s_err" /\ op'[w].pc = "ret") =>
          /\ op'[w].res = EmptyResult
          /\ current_metrics_'.total_requests = current_metrics_.total_requests + 1
          /\ current_metrics_'.success_requests = current_metrics_.success_requests
    ]_vars

\* C15: an OfflineRecognize call that has returned has incremented
\* total_requests once, and success_requests once exactly when its text is
\* non-empty; a failed recognition has returned the empty text.
C15_OfflineCountsEveryCall ==
  \A w \in Workers :
    (op[w].kind = "offline" /\ op[w].pc = "ret") =>
      /\ op[w].incTotal = 1
      /\ op[w].incSuccess = (IF op[w].res.text # "" THEN 1 ELSE 0)
      /\ op[w].failed => op[w].res.text = ""

\* C16: UpdateMetrics leaves every field of the aggregate that is non-zero
\* as it is when the partial record has zero in that field.
C16_MergeNeverRegresses ==
  [][ \A w \in Workers :
        (op[w].pc = "idle" /\ op'[w].kind = "update") =>
          \A f \in MetricFields :
            (op'[w].partial[f] = 0 /\ current_metrics_[f] # 0) =>
              current_metrics_'[f] = current_metrics_[f]
    ]_vars

\* C17: UpdateMetrics adds the partial record's
\* total_audio_processed_hours to the aggregate's (a zero adds nothing),
\* and no step of the engine makes the aggregate's value smaller.
C17_HoursAreAdditive ==
  [][ /\ current_metrics_'.total_audio_processed_hours
           >= current_metrics_.total_audio_processed_hours
      /\ \A w \in Workers :
           (op[w].pc = "idle" /\ op'[w].kind = "update") =>
             current_metrics_'.total_audio_processed_hours
               = current_metrics_.total_audio_processed_hours
                   + op'[w].partial.total_audio_processed_hours
    ]_vars

\* UpdateMetrics has just merged a partial record with hours into an
\* aggregate that already had some: the aggregate holds more than the
\* partial record brought.
C17_Witness ==
  \E w \in Workers :
    /\ op[w].kind = "update" /\ op[w].pc = "ret"
    /\ op[w].partial.total_audio_processed_hours > 0
    /\ current_metrics_.total_audio_processed_hours
         > op[w].partial.total_audio_processed_hours

\* C18: a call with enable_vad = true on more than 80000 samples runs the
\* VAD exactly once; when the VAD answers with segments whose texts are
\* non-empty, the slices are what is recognized, not the whole buffer.
C18_LongAudioIsSegmented ==
  \A w \in Workers :
    LET size == WorkingSize(op[w].args.audio, config_.enable_audio_resampling)
    IN  ( /\ op[w].kind = "offline"
          /\ op[w].pc \in {"o_lock", "o_locked", "ret"}
          /\ op[w].args.enable_vad
          /\ size > 80000 ) =>
          /\ op[w].vadRuns = 1
          /\ (op[w].res.text # "" /\ op[w].answers # << >>) =>
                op[w].recognized # << <<0, size>> >>

\* C19: when the VAD answers [(0, 1000), (1500, 2000)] for a call with
\* enable_vad = true on more than 80000 samples, the samples recognized are
\* [0, 16000) and [24000, 32000), and no others.
C19_SliceBoundaries ==
  \A w \in Workers :
    ( /\ op[w].kind = "offline"
      /\ op[w].pc \in {"o_lock", "o_locked", "ret"}
      /\ op[w].args.enable_vad
      /\ WorkingSize(op[w].args.audio, config_.enable_audio_resampling) > 80000
      /\ op[w].answers = << <<0, 1000>>, <<1500, 2000>> >> ) =>
      op[w].recognized = << <<0, 16000>>, <<24000, 32000>> >>

\* C20: the result an OfflineRecognize call returns has is_final and
\* is_offline_result set.
C20_OfflineResultIsFinal ==
  \A w \in Workers :
    (op[w].kind = "offline" /\ op[w].pc = "ret") =>
      op[w].res.is_final /\ op[w].res.is_offline_result

\* C21: an OfflineRecognize call runs the punctuation step exactly when
\* enable_punctuation was passed and the recognized text is non-empty; when
\* the step fails the call goes on, returns the recognized text as it was
\* and has counted itself as a successful request.
C21_PunctuationIsOptional ==
  \A w \in Workers :
    (op[w].kind = "offline" /\ op[w].pc \in {"o_lock", "o_locked", "ret"}) =>
      /\ op[w].puncRuns =
           (IF op[w].args.enable_punctuation /\ op[w].raw # "" THEN 1 ELSE 0)
      /\ op[w].puncFailed =>
           /\ ~op[w].failed
           /\ op[w].res.text = op[w].raw
           /\ op[w].pc \in {"o_locked", "ret"} => op[w].incSuccess = 1

\* A call whose punctuation step failed has returned: it carries the
\* recognized text and has been counted as a success.
C21_Witness ==
  \E w \in Workers :
    /\ op[w].kind = "offline" /\ op[w].pc = "ret"
    /\ op[w].puncFailed /\ op[w].res.text = "t" /\ op[w].incSuccess = 1

\* C22: no result held anywhere (the streaming sub-call's, a caller's list
\* entry, a refinement thread's, a direct engine call's) is tagged both as
\* an online and as an offline result.
C22_TagsAreExclusive ==
  LET DoublyTagged(r) == r.is_online_result /\ r.is_offline_result
  IN  /\ \A o \in Owners :
           /\ ~DoublyTagged(str[o].res)
           /\ \A k \in 1..Len(results[o]) : ~DoublyTagged(results[o][k])
      /\ \A i \in TaskIds : ~DoublyTagged(tasks[i].res)
      /\ \A w \in Workers : ~DoublyTagged(op[w].res)

\* A caller's list holds an online entry while a refinement thread holds
\* its offline result.
C22_Witness ==
  \E o \in Owners, i \in TaskIds :
    /\ Len(results[o]) > 0 /\ results[o][1].is_online_result
    /\ tasks[i].res.is_offline_result /\ tasks[i].res.text # ""

\* C23: for a list of segments, ParseVADResult gives as speech_start_ms
\* the start of the first segment whose start is not -1, as speech_end_ms
\* the end of the last segment whose end is not -1 (-1 when there is none),
\* and has_speech exactly when the list is not empty.
C23_ParseVADResult ==
  parse.st = "out" =>
    LET segs   == parse.segs
        starts == { k \in 1..Len(segs) : segs[k][1] # NoMs }
        ends   == { k \in 1..Len(segs) : segs[k][2] # NoMs }
        first  == CHOOSE k \in starts : \A j \in starts : k <= j
        last   == CHOOSE k \in ends : \A j \in ends : k >= j
    IN  /\ parse.out.speech_start_ms = (IF starts = {} THEN NoMs ELSE segs[first][1])
        /\ parse.out.speech_end_ms = (IF ends = {} THEN NoMs ELSE segs[last][2])
        /\ parse.out.has_speech = (Len(segs) > 0)

\* A list whose first segment has no start and whose last has no end has
\* been parsed: the start comes from the second segment, the end from the
\* first.
C23_Witness ==
  /\ parse.st = "out"
  /\ parse.segs = << <<NoMs, 1>>, <<2, NoMs>> >>
  /\ parse.out.speech_start_ms = 2 /\ parse.out.speech_end_ms = 1
  /\ parse.out.has_speech

\* C24: once TestConcurrentPerformance has started its workers, every file
\* of the list (files are numbered from 0) is in the shard of exactly one
\* worker.
C24_ShardsPartitionFiles ==
  bench.pc \in {"wait", "returned"} =>
    \A f \in 0..(bench.files - 1) :
      Cardinality({ i \in 0..(bench.num_workers - 1) :
                      /\ bw[i].st # "none"
                      /\ bw[i].start_idx <= f
                      /\ f < bw[i].end_idx }) = 1

\* C25: TestConcurrentPerformance has aggregated and returned only when
\* every worker it was to start had finished, and with every thread running
\* on it does return.
C25_ReturnsAfterEveryWorker ==
  /\ [](bench.pc = "returned" =>
          \A i \in 0..(bench.num_workers - 1) : bw[i].st = "done")
  /\ <>(bench.pc = "returned")

\* C26: a worker that threw has ended in its own catch block and left no
\* result; when all the workers were started and one of them threw,
\* TestConcurrentPerformance still returns, after every worker has
\* finished, with the aggregate of the results of the workers that did
\* not throw.
C26_WorkerIsolation ==
  /\ [](\A i \in 0..(MaxWorkers - 1) :
          bw[i].threw => bw[i].st = "done" /\ bench.worker_results[i] = 0)
  /\ [](bench.pc = "returned" =>
          LET survivors == { i \in 0..(bench.num_workers - 1) : ~bw[i].threw }
          IN  /\ \A i \in 0..(bench.num_workers - 1) : bw[i].st = "done"
              /\ bench.total_rtf = SumOver(bench.worker_results, survivors)
              /\ bench.valid_results =
                   Cardinality({ i \in survivors : bench.worker_results[i] > 0 }))
  /\ (bench.pc = "wait" /\ \E i \in 0..(MaxWorkers - 1) : bw[i].threw)
       ~> (bench.pc = "returned")

\* One of three workers threw, the function has returned with the results
\* of the two others.
C26_Witness ==
  /\ bench.pc = "returned" /\ bench.num_workers = 3
  /\ Cardinality({ i \in 0..(bench.num_workers - 1) : ~bw[i].threw }) = 2
  /\ bench.valid_results = 2

\* C27: the streaming RTF TestConcurrentPerformance returns is the sum of
\* the RTFs over the count of exactly the workers that streamed at least
\* one valid file and did not throw; their RTFs are the non-zero ones, and
\* with no such worker the sum and the count, and so the RTF, stay 0.
C27_MeanOverNonZeroWorkers ==
  bench.pc = "returned" =>
    LET measured == { i \in 0..(bench.num_workers - 1) :
                        bw[i].pushed > 0 /\ ~bw[i].threw }
    IN  /\ measured = { i \in 0..(bench.num_workers - 1) :
                          bench.worker_results[i] # 0 }
        /\ bench.total_rtf = SumOver(bench.worker_results, measured)
        /\ bench.valid_results = Cardinality(measured)
        /\ measured = {} => bench.total_rtf = 0 /\ bench.valid_results = 0

\* Three workers: one streamed no valid file, one threw, one has an RTF;
\* the mean is taken over that one alone.
C27_Witness ==
  /\ bench.pc = "returned" /\ bench.num_workers = 3
  /\ \E i, j \in 0..(MaxWorkers - 1) :
       /\ bw[i].st = "done" /\ bw[i].pushed = 0 /\ ~bw[i].threw
       /\ bw[j].threw
  /\ bench.valid_results = 1 /\ bench.total_rtf = 2

\* C28: when ~FunASREngine has returned every refinement thread that was
\* launched has ended: none runs engine code after that, and none is
\* inside an inference call when the process ends.
C28_TeardownWaitsForRefinement ==
  /\ td.engine = "destroyed" => \A i \in 1..MaxRefine : rt[i].pc \in {"none", "done"}
  /\ \A i \in 1..MaxRefine : ~rt[i].afterDtor /\ ~rt[i].cut

\* C29: when a step of Initialize has failed (Python, one of the four
\* models, the test files) the process has exited with a non-zero code,
\* initialized_ is false and the test thread was never started.
C29_InitFailureIsFatal ==
  mp.initFailed # "none" =>
    /\ mp.pc = "exit" /\ mp.exit # 0
    /\ ~mp.initialized_
    /\ ~mp.test_thread_

\* The loading of the test files failed: the process has exited with -1.
C29_Witness ==
  /\ mp.initFailed = "files" /\ mp.step = Len(InitSteps)
  /\ mp.pc = "exit" /\ mp.exit = 0 - 1

\* C30: the process exits with a non-zero code when the command line was
\* invalid, and with 0 after showing help or version and after a complete
\* run.
C30_ExitCodes ==
  mp.pc = "exit" =>
    /\ mp.refused = "invalid" => mp.exit # 0
    /\ mp.refused = "info" => mp.exit = 0
    /\ (mp.refused = "none" /\ mp.initFailed = "none") => mp.exit = 0

\* C37: the shard bounds the spawn loop of TestConcurrentPerformance
\* computes for the worker it is about to start, and those of every worker
\* it has started, satisfy 0 <= start_idx <= end_idx <= F, F the number of
\* files.
C37_ShardBoundsInRange ==
  /\ (bench.pc = "spawn" /\ bench.i < bench.num_workers) =>
       LET start_idx == StartIdx(bench.i, bench.files, bench.num_workers)
           end_idx   == EndIdx(bench.i, bench.files, bench.num_workers)
       IN  0 <= start_idx /\ start_idx <= end_idx /\ end_idx <= bench.files
  /\ \A i \in 0..(MaxWorkers - 1) :
       bw[i].st # "none" =>
         /\ 0 <= bw[i].start_idx /\ bw[i].start_idx <= bw[i].end_idx
         /\ bw[i].end_idx <= bench.files

\* C32: Reset applied to a session leaves the three caches empty, both
\* audio buffers empty, the flags false and vad_pre_idx 0, and leaves
\* chunk_size, encoder_chunk_look_back, decoder_chunk_look_back and
\* chunk_interval as they were; every session has the windowing parameters
\* it was created with.
C32_ResetKeepsWindowing ==
  \A o \in Owners :
    LET s == session[o]
        r == Reset(s)
    IN  /\ r.streaming_cache = EmptyCache /\ r.vad_cache = EmptyCache
        /\ r.punc_cache = EmptyCache
        /\ r.audio_buffer = << >> /\ r.current_segment = << >>
        /\ ~r.is_speaking /\ ~r.is_final /\ r.vad_pre_idx = 0
        /\ \A f \in {"chunk_size", "encoder_chunk_look_back",
                     "decoder_chunk_look_back", "chunk_interval"} :
             r[f] = s[f] /\ s[f] = NewSession[f]

\* A refinement thread launched with a non-empty snapshot has run Reset on
\* its live session: the buffer and the streaming cache are empty, the
\* windowing parameters are the initial ones.
C32_Witness ==
  \E o \in Owners, i \in TaskIds :
    /\ alive[o] /\ tasks[i].owner = o /\ tasks[i].resetOn = "live"
    /\ tasks[i].snap # << >>
    /\ session[o].audio_buffer = << >>
    /\ session[o].streaming_cache = EmptyCache
    /\ session[o].chunk_size = <<0, 10, 5>>
    /\ session[o].chunk_interval = ChunkInterval

\* C34: the snapshot (complete_segment) of a refinement task holds, in
\* order, exactly the chunks passed on its session after the previous
\* endpoint of that session up to the chunk of its own endpoint; so a chunk
\* is in the snapshot of the first endpoint at or after it and in no other.
C34_ChunkInOneSnapshot ==
  \A i \in TaskIds :
    LET t      == tasks[i]
        before == { tasks[j].chunk : j \in { k \in TaskIds :
                      /\ tasks[k].owner = t.owner /\ tasks[k].gen = t.gen
                      /\ tasks[k].chunk < t.chunk } }
        prev   == IF before = {} THEN 0
                  ELSE CHOOSE c \in before : \A d \in before : d <= c
    IN  t.snap = [k \in 1..(t.chunk - prev) |-> prev + k]

\* C35: in every state success_requests is at most total_requests.
C35_SuccessAtMostTotal ==
  current_metrics_.success_requests <= current_metrics_.total_requests

\* C31: when the test thread has gone through its tests without an
\* exception, every test mode enabled in the configuration has been run.
C31_EveryEnabledTestRuns ==
  (suite.tpc = "done" /\ ~suite.threw) => suite.ran = suite.tests

\* C36: when the offline test has run over its files without an exception,
\* total_audio_processed_hours (0 after Initialize) has grown by the summed
\* duration of the files recognized with a non-empty result.
C36_HoursCountedOnce ==
  (suite.tpc = "done" /\ ~suite.threw /\ "offline" \in suite.tests) =>
    current_metrics_.total_audio_processed_hours = suite.total_audio_duration

\* C38: while the test thread runs testing_active_ is true; MonitorProgress
\* leaves its loop on 'testing finished' only when the thread has finished;
\* and once the thread is started the flag becomes false again (unless the
\* process is terminated), also when a test threw.
C38_TestingActiveCoversTests ==
  /\ [](suite.test_thread_ = "running" => suite.testing_active_)
  /\ [](suite.mon = "finished" => suite.tpc = "done")
  /\ (suite.test_thread_ = "running")
       ~> (~suite.testing_active_ \/ suite.terminated)

\* C39: no RunPerformanceTests call assigns to a joinable test_thread_ (the
\* assignment that terminates the process).
C39_OneTestThread ==
  ~suite.terminated

\* C33: a ResampleAudio call returns floor(size * to_rate / from_rate)
\* samples, and the input itself when the two rates are equal; every source
\* index it reads lies in [0, size), with the last sample used where
\* idx + 1 would leave the buffer; and a buffer taken from 16000 Hz to
\* 8000 Hz and back has a length within one sample of the original.
C33_ResampleLengthAndIndices ==
  (fn.f = "ResampleAudio" /\ fn.calls > 0) =>
    /\ Len(fn.out) = IF fn.from_rate = fn.to_rate THEN fn.size
                     ELSE (fn.size * fn.to_rate) \div fn.from_rate
    /\ fn.from_rate = fn.to_rate =>
         fn.out = [i \in 1..fn.size |-> << i - 1, i - 1 >>]
    /\ \A i \in 1..Len(fn.out) :
         /\ fn.out[i][1] \in 0..(fn.size - 1)
         /\ fn.out[i][2] \in 0..(fn.size - 1)
         /\ (fn.from_rate # fn.to_rate /\
             ((i - 1) * fn.from_rate) \div fn.to_rate + 1 >= fn.size) =>
               fn.out[i] = << fn.size - 1, fn.size - 1 >>
    /\ (fn.calls = 2 /\ fn.from_rate = 8000 /\ fn.to_rate = 16000) =>
         /\ Len(fn.out) - fn.n0 \in {-1, 0, 1}

\* A buffer of an odd number of samples has gone 16000 Hz -> 8000 Hz ->
\* 16000 Hz, has come back one sample shorter, and the second call has used
\* the last sample at the boundary.
C33_Witness ==
  /\ fn.f = "ResampleAudio" /\ fn.calls = 2
  /\ fn.from_rate = 8000 /\ fn.to_rate = 16000
  /\ fn.n0 % 2 = 1 /\ Len(fn.out) = fn.n0 - 1 /\ fn.size > 1
  /\ \E i \in 1..Len(fn.out) : fn.out[i] = << fn.size - 1, fn.size - 1 >>

\* C40: every SimulateStreamingChunks call with a positive chunk duration
\* returns; the chunks it returns, one after the other, are the input; each
\* of them but the last has floor(chunk_duration_ms / 1000 * 16000) samples,
\* which is 9600 for 600 ms; and the last one is not empty.
C40_ChunkingTerminatesAndPartitions ==
  LET RECURSIVE Flat(_)
      Flat(cs) == IF cs = << >> THEN << >> ELSE Head(cs) \o Flat(Tail(cs))
  IN  /\ []((fn.f = "SimulateStreamingChunks" /\ fn.pc = "returned") =>
              /\ Flat(fn.chunks) = fn.audio_data
              /\ \A k \in 1..(Len(fn.chunks) - 1) :
                   Len(fn.chunks[k]) = fn.d32 \div 2
              /\ fn.chunks # << >> => Len(fn.chunks[Len(fn.chunks)]) > 0
              /\ ChunkSamples(600 * 32) = 9600)
      /\ (fn.f = "SimulateStreamingChunks" /\ fn.pc = "call")
           ~> (fn.f = "SimulateStreamingChunks" /\ fn.pc = "returned")

====
